---- MODULE Spec2Model ----
(***************************************************************************)
(* Hardware assessor (agents/hw_assessor): privilege negotiation, the      *)
(* guarded command runner with its execution log, and the main() driver,   *)
(* together with the API entry point that starts a local assessment, and   *)
(* the derivation of metrics, role ratings and upgrade tips for the report.*)
(* Console (app): host discovery and the SSH check, and the assessment     *)
(* jobs of the API with their background tasks.                            *)
(*                                                                         *)
(* Python's None is the empty sequence <<>>, and a present value v is the  *)
(* one-element sequence <<v>>.  Texts built with f-strings are sequences   *)
(* of their parts.  Time is counted in ticks of perf_counter(); timeouts   *)
(* are in tenths of a second.                                              *)
(***************************************************************************)
EXTENDS Integers, Sequences, FiniteSets, TLC

\* ------------------------------------------------------------------ bounds
\* At most MaxFailures log entries carry a failure (non-zero exit, timeout,
\* executable not found); the commands after them exit 0.
MaxFailures == 1
\* Direct run() calls are made while the log holds fewer than MaxLog entries.
MaxLog == 2
\* The memory inventory lists at most MaxModules memory devices.
MaxModules == 2
\* The API server starts at most MaxAssessments local assessments.
MaxAssessments == 2
\* The API accepts at most MaxJobs jobs.
MaxJobs == 2
\* A speed text holds at most MaxRuns runs of digits.
MaxRuns == 3
\* Avahi reports at most MaxEntries hosts, the SSH config at most
\* MaxSshEntries.
MaxEntries == 2
MaxSshEntries == 1

\* ------------------------------------------------------------ option values
None == <<>>
Some(v) == <<v>>
Truthy(o) == o # <<>> /\ o[1] # ""

\* ------------------------------------------------------------------- state
VARIABLES
    euid0,        \* os.geteuid() == 0 for this process
    priv,         \* _PRIV_STATE
    warned,       \* _WARNED_MISSING_SUDO
    log,          \* _COMMAND_LOG
    calls,        \* the cmd argument of every run() since the last clear
    advisories,   \* "Running without sudo" lines written to stderr
    lastCfg,      \* the configure_privileges call of the latest step, if any
    lastCall,     \* the run() call of the latest step, if any
    pc,           \* position of the assessment in progress
    job,          \* the assessment in progress, or the latest one
    assess,       \* what main() has collected and derived for its report
    speed,        \* the latest parse_speed_mts call: its text and its result
    found,        \* the latest discover_hosts call: its entries and its result
    sshCheck,     \* the latest verify_ssh call: the probe's outcome and its result
    hosts,        \* the ids of the rows of the host table
    jobs,         \* the assessmentjob table
    reports,      \* the report table
    tasks         \* the background tasks of the API server, one per created job

\* the state outside the hardware assessor
others == <<speed, found, sshCheck, hosts, jobs, reports, tasks>>

vars == <<euid0, priv, warned, log, calls, advisories, lastCfg, lastCall, pc, job, assess,
          others>>

\* ---------------------------------------------------------- PrivilegeState
PrivilegeState(is_root) ==
    [is_root |-> is_root, use_sudo |-> FALSE, requires_password |-> FALSE,
     password |-> None, mode |-> "auto", configured |-> FALSE]

ValidModes == {"auto", "skip", "require"}

\* str.lower() on the mode texts the callers pass
Lower(mode) ==
    CASE mode = "AUTO" -> "auto"
      [] mode = "Require" -> "require"
      [] OTHER -> mode

\* _sudo_check_noninteractive: sudo -n true; FileNotFoundError and
\* TimeoutExpired are both "no".
ProbeOutcomes == {"exit0", "exit1", "notfound", "timeout"}
sudo_check_noninteractive(probe) == probe = "exit0"

\* _sudo_validate_password: sudo -S -v fed the password.
sudo_validate_password(password, check) == check = "exit0"

\* fault: mode "skip" is not an early return
NeedsNoEscalationRootOnly(state, mode) == state.is_root

\* the early returns of configure_privileges: root, or mode "skip"
NeedsNoEscalation(state, mode) == state.is_root \/ mode = "skip"

\* fault: a successful probe is recorded as a password grant
ProbeGrantedWithPassword(state) ==
    [state EXCEPT !.use_sudo = TRUE, !.requires_password = TRUE]

\* the state after a successful non-interactive probe
ProbeGranted(state) == [state EXCEPT !.use_sudo = TRUE]

\* the state after a validated password
PasswordGranted(state, password) ==
    [state EXCEPT !.use_sudo = TRUE, !.requires_password = TRUE,
                  !.password = Some(password)]

\* whether configure_privileges asks for a password once the probe said no
MayPrompt(prompt_password, mode) == prompt_password \/ mode = "require"

\* the text getpass() shows
PromptText(prompt_password) ==
    IF prompt_password THEN "sudo password: " ELSE "sudo password (required): "

\* fault: a rejected password never ends the process
RejectedIsFatalNever(mode) == FALSE

\* fault: a rejected password ends the process in every mode
RejectedIsFatalAlways(mode) == TRUE

\* whether a rejected password ends the process
RejectedIsFatal(mode) == mode = "require"

\* fault: a negotiation keeps the password of the one before
RenegotiatedKeepsSecret(state, mode, root) ==
    [state EXCEPT !.mode = mode, !.is_root = root, !.configured = TRUE,
                  !.use_sudo = FALSE, !.requires_password = FALSE]

\* fields every negotiation starts from
Renegotiated(state, mode, root) ==
    [state EXCEPT !.mode = mode, !.is_root = root, !.configured = TRUE,
                  !.use_sudo = FALSE, !.requires_password = FALSE,
                  !.password = None]

CfgOut(state, raised, probed, prompted) ==
    [state |-> state, raised |-> raised, probed |-> probed, prompted |-> prompted]

\* configure_privileges(mode, prompt_password) on _PRIV_STATE = state, in a
\* process whose euid is root iff `root`; probe, entered and check are what the
\* sudo probe, getpass() and the password validation give when they are asked.
\* raised is "none", "ValueError" or "SystemExit"; probed says whether the
\* probe ran; prompted is the prompt shown, if any.
configure_privileges(state, mode0, prompt_password, root, probe, entered, check) ==
    LET mode == Lower(mode0)
        base == Renegotiated(state, mode, root)
    IN  IF mode \notin ValidModes THEN CfgOut(state, "ValueError", FALSE, None)
        ELSE IF NeedsNoEscalation(base, mode) THEN CfgOut(base, "none", FALSE, None)
        ELSE IF sudo_check_noninteractive(probe)
             THEN CfgOut(ProbeGranted(base), "none", TRUE, None)
        ELSE IF MayPrompt(prompt_password, mode)
             THEN IF entered # "" /\ sudo_validate_password(entered, check)
                  THEN CfgOut(PasswordGranted(base, entered), "none", TRUE,
                              Some(PromptText(prompt_password)))
                  ELSE IF RejectedIsFatal(mode)
                       THEN CfgOut(base, "SystemExit", TRUE,
                                   Some(PromptText(prompt_password)))
                       ELSE CfgOut(base, "none", TRUE,
                                   Some(PromptText(prompt_password)))
        ELSE CfgOut(base, "none", TRUE, None)

\* _reset_privileges_for_tests
reset_privileges_for_tests(state, root) ==
    [state EXCEPT !.is_root = root, !.use_sudo = FALSE,
                  !.requires_password = FALSE, !.password = None,
                  !.mode = "auto", !.configured = FALSE]

\* ------------------------------------------------------------------- run()
\* whether run() takes the elevation branch
WantsElevation(state, needs_root) == needs_root /\ ~state.is_root

\* fault: run() negotiates whenever it takes the elevation branch
MustNegotiateAlways(state, needs_root) == WantsElevation(state, needs_root)

\* whether run() calls configure_privileges() first
MustNegotiate(state, needs_root) ==
    WantsElevation(state, needs_root) /\ ~state.configured

\* fault: the stored password is never piped
PipesPasswordNever(state) == FALSE

\* whether the elevation branch pipes the stored password
PipesPassword(state) == state.requires_password /\ Truthy(state.password)

\* fault: the advisory does not look at the flag
AdvisesEachTime(warn, optional) == ~optional

\* whether an unprivileged fallback prints the advisory
Advises(warn, optional) == ~optional /\ ~warn

\* full_cmd and input_data, and whether the advisory is printed, for a run()
\* made with _PRIV_STATE = state (already configured if it had to be)
Elevate(state, warn, cmd, optional, needs_root) ==
    IF WantsElevation(state, needs_root)
    THEN IF state.use_sudo
         THEN IF PipesPassword(state)
              THEN [full_cmd |-> <<"sudo", "-S">> \o cmd,
                    input_data |-> Some(<<state.password[1], "\n">>),
                    advisory |-> FALSE]
              ELSE [full_cmd |-> <<"sudo", "-n">> \o cmd, input_data |-> None,
                    advisory |-> FALSE]
         ELSE [full_cmd |-> cmd, input_data |-> None,
               advisory |-> Advises(warn, optional)]
    ELSE [full_cmd |-> cmd, input_data |-> None, advisory |-> FALSE]

\* fault: without input data the child inherits the caller's stdin
InvocationInheritsStdin(full_cmd, input_data, timeout) ==
    IF input_data # None
    THEN [argv |-> full_cmd, input |-> input_data, stdin |-> "PIPE",
          timeout |-> timeout]
    ELSE [argv |-> full_cmd, input |-> None, stdin |-> "INHERIT",
          timeout |-> timeout]

\* the subprocess.run call run() makes: input= when there is input data,
\* stdin=DEVNULL otherwise
Invocation(full_cmd, input_data, timeout) ==
    IF input_data # None
    THEN [argv |-> full_cmd, input |-> input_data, stdin |-> "PIPE",
          timeout |-> timeout]
    ELSE [argv |-> full_cmd, input |-> None, stdin |-> "DEVNULL",
          timeout |-> timeout]

\* time.perf_counter() - start
Elapsed(start, end) == end - start

\* text.strip() of the outputs the environment can give
Strip(text) ==
    CASE text = "out\n" -> "out"
      [] text = "b'out\n'" -> "b'out'"
      [] text = " " -> ""
      [] OTHER -> text

\* f"{timeout:.1f}" of a timeout given in tenths of a second
Fmt1f(timeout) == <<ToString(timeout \div 10), ".", ToString(timeout % 10)>>

CommandResult(cmd, stdout, stderr, returncode, timed_out, error, duration) ==
    [cmd |-> cmd, stdout |-> stdout, stderr |-> stderr, returncode |-> returncode,
     timed_out |-> timed_out, error |-> error, duration |-> duration]

\* fault: success does not look at the error
successIgnoresError(result) ==
    /\ ~result.timed_out
    /\ (result.returncode = None \/ result.returncode = Some(0))

\* CommandResult.success
success(result) ==
    /\ (result.error = None \/ result.error = Some(<<>>))
    /\ ~result.timed_out
    /\ (result.returncode = None \/ result.returncode = Some(0))

\* stderr or stdout or f"Exit code {returncode}"
ExitError(stdout, stderr, returncode) ==
    IF stderr # "" THEN <<stderr>>
    ELSE IF stdout # "" THEN <<stdout>>
    ELSE <<"Exit code ", ToString(returncode)>>

\* fault: the executable named is the caller's, not the one launched
NotFoundNamesTarget(cmd, full_cmd, duration) ==
    CommandResult(full_cmd, "", "", None, FALSE,
        Some(<<"Command not found: ", cmd[1]>>), Some(duration))

\* the FileNotFoundError exit of run()
NotFound(cmd, full_cmd, duration) ==
    CommandResult(full_cmd, "", "", None, FALSE,
        Some(<<"Command not found: ",
               IF full_cmd # <<>> THEN full_cmd[1] ELSE cmd[1]>>),
        Some(duration))

\* fault: the output carried by the exception is dropped
TimedOutDropsOutput(full_cmd, timeout, out, duration) ==
    CommandResult(full_cmd, "", "", None, TRUE,
        Some(<<"Timed out after ">> \o Fmt1f(timeout) \o <<"s: ">> \o full_cmd),
        Some(duration))

\* the TimeoutExpired exit of run()
TimedOut(full_cmd, timeout, out, duration) ==
    CommandResult(full_cmd, Strip(out.stdout), Strip(out.stderr), None, TRUE,
        Some(<<"Timed out after ">> \o Fmt1f(timeout) \o <<"s: ">> \o full_cmd),
        Some(duration))

\* fault: a non-zero exit sets no error
ExitedWithoutReason(full_cmd, out, duration) ==
    CommandResult(full_cmd, Strip(out.stdout), Strip(out.stderr),
        Some(out.returncode), FALSE, None, Some(duration))

\* the exit of run() after subprocess.run returned
Exited(full_cmd, out, duration) ==
    CommandResult(full_cmd, Strip(out.stdout), Strip(out.stderr),
        Some(out.returncode), FALSE,
        IF out.returncode # 0
        THEN Some(ExitError(Strip(out.stdout), Strip(out.stderr), out.returncode))
        ELSE None,
        Some(duration))

\* the CommandResult run() builds from what subprocess.run did: out.kind is
\* "notfound" (FileNotFoundError), "timeout" (TimeoutExpired) or "exit"
Complete(cmd, full_cmd, timeout, out, duration) ==
    CASE out.kind = "notfound" -> NotFound(cmd, full_cmd, duration)
      [] out.kind = "timeout" -> TimedOut(full_cmd, timeout, out, duration)
      [] OTHER -> Exited(full_cmd, out, duration)

\* fault: the timeout exit returns without recording the result
AppendLogUnlessTimeout(entries, result) ==
    IF result.timed_out THEN entries ELSE Append(entries, result)

\* _COMMAND_LOG.append(result), on each of run()'s three exits
AppendLog(entries, result) == Append(entries, result)

\* get_command_log(): a snapshot of the log
get_command_log(entries) == entries

\* clear_command_log()
clear_command_log(entries) == <<>>

\* what subprocess.run can do with a command, and the perf_counter() ticks
\* that pass meanwhile
Outcomes ==
    { [kind |-> "exit", returncode |-> 0, stdout |-> "out\n", stderr |-> "", ticks |-> 0],
      [kind |-> "exit", returncode |-> 2, stdout |-> " ", stderr |-> "boom", ticks |-> 1],
      [kind |-> "exit", returncode |-> 3, stdout |-> "", stderr |-> "", ticks |-> 1],
      [kind |-> "timeout", returncode |-> 0, stdout |-> "out\n", stderr |-> "err", ticks |-> 2],
      [kind |-> "notfound", returncode |-> 0, stdout |-> "", stderr |-> "", ticks |-> 0] }

\* a timeout as subprocess.run raises it: TimeoutExpired.output holds the
\* bytes read from the pipe before the kill, also under text=True
CapturedBytes ==
    [kind |-> "timeout", returncode |-> 0, stdout |-> "b'out\n'", stderr |-> "", ticks |-> 2]

\* what subprocess.run can do with a collector's command
CollectorOutcomes == Outcomes \cup {CapturedBytes}

\* isinstance(text, bytes), of the texts a CommandResult can hold
IsBytes(text) == text = "b'out'"

\* perf_counter() readings at which a run() can be entered
StartTimes == {7}

IsFailure(out) == out.kind # "exit" \/ out.returncode # 0

FailCount(entries) == Cardinality({i \in 1..Len(entries) : ~success(entries[i])})

\* run(cmd, timeout=, optional=, needs_root=) from the process state
\* (state, warn, entries), entered at time start; probe is what the sudo probe
\* gives if run() has to negotiate, out what subprocess.run does, end the time
\* at which it returns or raises.
run(state, warn, entries, start, cmd, timeout, optional, needs_root, root, probe, out, end) ==
    LET negotiate == MustNegotiate(state, needs_root)
        cfg == IF negotiate
               THEN configure_privileges(state, "auto", FALSE, root, probe, "", "exit1")
               ELSE CfgOut(state, "none", FALSE, None)
        el == Elevate(cfg.state, warn, cmd, optional, needs_root)
        result == Complete(cmd, el.full_cmd, timeout, out, Elapsed(start, end))
    IN  [state |-> cfg.state,
         warned |-> warn \/ el.advisory,
         log |-> AppendLog(entries, result),
         result |-> result,
         invocation |-> Invocation(el.full_cmd, el.input_data, timeout),
         advisory |-> el.advisory,
         negotiated |-> negotiate,
         cfg |-> cfg]

\* ------------------------------------------------------------ observations
\* a negotiation as seen from outside: what it was asked, what the probe and
\* the password check answered when they were asked, what it did
CfgSeen(mode, prompt_password, probe, entered, check, before, cfg) ==
    Some([mode |-> mode, prompt_password |-> prompt_password,
          probe_ok |-> cfg.probed /\ sudo_check_noninteractive(probe),
          accepted |-> cfg.prompted # None /\ entered # ""
                       /\ sudo_validate_password(entered, check),
          was_configured |-> before.configured,
          raised |-> cfg.raised, probed |-> cfg.probed, prompted |-> cfg.prompted])

\* a run() as seen from outside: its arguments, the flag and the privilege
\* state it read, the subprocess.run call it made and what that did, what it
\* printed and returned
CallSeen(cmd, optional, needs_root, warn, out, r) ==
    Some([cmd |-> cmd, optional |-> optional, needs_root |-> needs_root,
          warned_before |-> warn, state |-> r.state, invocation |-> r.invocation,
          out |-> out, advisory |-> r.advisory, result |-> r.result])

\* the external commands of one assessment, in the order main() issues them:
\* collect_system_info (three), collect_cpu_info, collect_memory_info, free,
\* collect_storage, collect_nvme, collect_gpu (lspci, then nvidia-smi).
\* which is TRUE where the collector first asks shutil.which for the tool;
\* reads says what the collector does with the result's stdout: "success" keeps
\* it if the command succeeded, "str" takes it apart with str arguments at
\* once, "json" hands it to json.loads, "later" returns it as it is.
Collector(cmd, timeout, optional, needs_root, which, reads) ==
    [cmd |-> cmd, timeout |-> timeout, optional |-> optional,
     needs_root |-> needs_root, which |-> which, reads |-> reads]

Collectors ==
    << Collector(<<"dmidecode", "-s", "system-manufacturer">>, 150, FALSE, TRUE, FALSE,
                 "success"),
       Collector(<<"dmidecode", "-s", "system-product-name">>, 150, FALSE, TRUE, FALSE,
                 "success"),
       Collector(<<"dmidecode", "-s", "bios-version">>, 150, FALSE, TRUE, FALSE, "success"),
       Collector(<<"lscpu">>, 100, FALSE, FALSE, FALSE, "str"),
       Collector(<<"dmidecode", "-t", "memory">>, 200, FALSE, TRUE, FALSE, "str"),
       Collector(<<"free", "-m">>, 50, FALSE, FALSE, FALSE, "str"),
       Collector(<<"lsblk", "-J", "-o", "NAME,MODEL,SIZE,TYPE,MOUNTPOINT,ROTA,TRAN">>,
                 150, FALSE, FALSE, FALSE, "json"),
       Collector(<<"nvme", "list">>, 150, TRUE, FALSE, TRUE, "later"),
       Collector(<<"lspci">>, 100, FALSE, FALSE, FALSE, "str"),
       Collector(<<"nvidia-smi", "--query-gpu=name,memory.total", "--format=csv,noheader">>,
                 150, TRUE, FALSE, TRUE, "str") >>

\* the assessment in progress or the latest one: who started it, what the
\* negotiation at its start was asked and answered, how far the collectors
\* are, how many commands it ran, what each collector got (None where the
\* tool was not found), and how it ended; seq counts the assessments of the
\* process
JobRec(seq, kind, mode, prompt, probe_ok, accepted, raised, missing, step, runs, collected, result, reported) ==
    [seq |-> seq, kind |-> kind, mode |-> mode, prompt |-> prompt, probe_ok |-> probe_ok,
     accepted |-> accepted, raised |-> raised, missing |-> missing,
     step |-> step, runs |-> runs, collected |-> collected, result |-> result,
     reported |-> reported]

NoJob == JobRec(0, "none", "auto", FALSE, FALSE, FALSE, "none", FALSE, 0, 0, <<>>, None, FALSE)

\* ------------------------------------------------- metrics, ratings, tips
\* Sizes the source keeps in GB as floats (value / 1024) are counted here in
\* units of 1/1024 GB, which keeps every division by 1024 exact.
GB(n) == n * 1024

\* int(text.split()[0]) of the lscpu values the inputs hold
ParseInt(text) ==
    CASE text = "8" -> 8
      [] text = "16" -> 16
      [] text = "24" -> 24
      [] OTHER -> 0

\* re.search(r"(\d+)\s*(GB|MB)", text, re.IGNORECASE) on the size texts the
\* inputs hold: the number and the unit, or None
SizeMatch(text) ==
    CASE text = "8 GB" -> Some([value |-> 8, unit |-> "GB"])
      [] text = "16384 MB" -> Some([value |-> 16384, unit |-> "MB"])
      [] OTHER -> None

\* "No Module" in text
SaysNoModule(text) == text = "No Module Installed"

\* parse_size_to_gb(text), text being dev.get("Size")
parse_size_to_gb(text) ==
    IF ~Truthy(text) \/ SaysNoModule(text[1]) THEN 0
    ELSE IF SizeMatch(text[1]) = None THEN 0
    ELSE LET m == SizeMatch(text[1])[1]
         IN  IF m.unit = "MB" THEN m.value ELSE GB(m.value)

\* the memory devices dmidecode can list: a populated slot, an empty slot,
\* and a module reported without a locator
Modules ==
    { [Size |-> Some("8 GB"), Locator |-> Some("DIMM A")],
      [Size |-> Some("No Module Installed"), Locator |-> Some("DIMM B")],
      [Size |-> Some("16384 MB"), Locator |-> None] }

ModuleLists == UNION { [1..n -> Modules] : n \in 0..MaxModules }

\* mem_info as collect_memory_info returns it
MemInfos ==
    [devices : ModuleLists, slot_count : {None, Some(0), Some(1), Some(2)},
     max_capacity_gb : {None, Some(GB(16))}]

\* the lscpu fields metrics_from_data and role_rating read
Cpus ==
    { [cpus |-> None, virtualization |-> ""],
      [cpus |-> Some("8"), virtualization |-> "VT-x"],
      [cpus |-> Some("16"), virtualization |-> ""],
      [cpus |-> Some("24"), virtualization |-> "AMD-V"] }

\* the "Mem:" total of free -m, when it was read
TotalMemMb == {None, Some(32768), Some(65536)}

\* gpus_pci and gpus_nv as collect_gpu returns them: the lspci lines that
\* mention vga, 3d or display, and the nvidia-smi rows
Gpu(gpus_pci, gpus_nv) == [gpus_pci |-> gpus_pci, gpus_nv |-> gpus_nv]

Gpus ==
    { Gpu(<<"VGA compatible controller: Intel UHD">>, <<>>),
      Gpu(<<"VGA compatible controller: NVIDIA AD106M">>, <<>>),
      Gpu(<<"VGA compatible controller: Intel UHD">>,
          <<[name |-> "RTX", memory |-> "8192 MiB"]>>),
      Gpu(<<"VGA compatible controller: NVIDIA AD106M">>,
          <<[name |-> "RTX", memory |-> "16384 MiB"]>>) }

\* ("nvidia" in line) or ("amd" in line and "graphics" in line), lower-cased
IsDedicatedLine(line) == line = "VGA compatible controller: NVIDIA AD106M"

\* the MiB or GiB figure of a memory text, in MiB
VramOf(text) ==
    CASE text = "8192 MiB" -> 8192
      [] text = "16384 MiB" -> 16384
      [] OTHER -> 0

\* lsblk disks
DiskLists ==
    { <<[tran |-> Some("nvme")]>>,
      <<[tran |-> Some("nvme")], [tran |-> Some("nvme")]>>,
      <<[tran |-> Some("nvme")], [tran |-> None], [tran |-> Some("sata")]>> }

RECURSIVE SumSizes(_)
SumSizes(devices) ==
    IF devices = <<>> THEN 0
    ELSE parse_size_to_gb(devices[1].Size) + SumSizes(Tail(devices))

RECURSIVE MaxVram(_)
MaxVram(gpus_nv) ==
    IF gpus_nv = <<>> THEN 0
    ELSE LET rest == MaxVram(Tail(gpus_nv))
             v == VramOf(gpus_nv[1].memory)
         IN  IF v > rest THEN v ELSE rest

Max0(n) == IF n > 0 THEN n ELSE 0

\* len([d for d in mem_devices if parse_size_to_gb(d.get("Size")) > 0])
CountPopulated(mem_devices) ==
    Cardinality({i \in 1..Len(mem_devices) : parse_size_to_gb(mem_devices[i].Size) > 0})

\* len([d for d in mem_devices if d.get("Locator")])
CountLocators(mem_devices) ==
    Cardinality({i \in 1..Len(mem_devices) : Truthy(mem_devices[i].Locator)})

\* sum(1 for d in disks if (d.get("tran") or "").lower() == "nvme")
CountNvme(disks) ==
    Cardinality({i \in 1..Len(disks) :
        disks[i].tran # None /\ Lower(disks[i].tran[1]) = "nvme"})

\* the slot accounting of metrics_from_data: slots and empty
SlotCounts(declared_slots, mem_devices, populated) ==
    IF declared_slots # None /\ declared_slots[1] # 0
    THEN [slots |-> declared_slots[1], empty |-> Max0(declared_slots[1] - populated)]
    ELSE LET slots == CountLocators(mem_devices)
         IN  [slots |-> slots, empty |-> Max0(slots - populated)]

\* metrics_from_data: the fields that the ratings, the tips and the report's
\* memory section read
metrics_from_data(cpu, mem_info, total_mem_mb, gpus_pci, gpus_nv, disks) ==
    LET threads == IF Truthy(cpu.cpus) THEN ParseInt(cpu.cpus[1]) ELSE 0
        mem_devices == mem_info.devices
        from_free == IF total_mem_mb # None /\ total_mem_mb[1] # 0
                     THEN total_mem_mb[1] ELSE 0
        mem_total_gb == IF from_free = 0 THEN SumSizes(mem_devices) ELSE from_free
        populated == CountPopulated(mem_devices)
        sc == SlotCounts(mem_info.slot_count, mem_devices, populated)
        by_pci == \E i \in 1..Len(gpus_pci) : IsDedicatedLine(gpus_pci[i])
    IN  [threads |-> threads,
         virtualization |-> cpu.virtualization,
         ram_total_gb |-> mem_total_gb,
         ram_slots |-> sc.slots,
         ram_populated |-> populated,
         ram_empty |-> sc.empty,
         ram_modules |-> mem_devices,
         ram_max_capacity_gb |-> mem_info.max_capacity_gb,
         has_dedicated_gpu |-> by_pci \/ gpus_nv # <<>>,
         gpu_vram_gb |-> MaxVram(gpus_nv),
         storage_nvme |-> CountNvme(disks),
         storage_total |-> Len(disks)]

\* f"{value:.1f}" of a size counted in 1/1024 GB (round half to even)
Fmt1fGb(v) ==
    LET q == (v * 10) \div 1024
        r == (v * 10) % 1024
        tenths == IF r > 512 \/ (r = 512 /\ q % 2 = 1) THEN q + 1 ELSE q
    IN  <<ToString(tenths \div 10), ".", ToString(tenths % 10)>>

\* ratings[key] = value
Put(dict, key, value) ==
    [k \in DOMAIN dict \cup {key} |-> IF k = key THEN value ELSE dict[k]]

\* pack(rating, summary, notes)
pack(rating, summary, notes) ==
    [rating |-> rating, summary |-> summary, notes |-> notes]

\* fault: the workstation thresholds are strict
RateWorkstationStrict(ratings, metrics) ==
    Put(ratings, "Developer workstation",
        IF metrics.threads > 16 /\ metrics.ram_total_gb > GB(32)
        THEN pack("Excellent",
                  <<"Plenty of CPU threads and RAM for IDEs, containers, and VMs.">>, <<>>)
        ELSE IF metrics.threads > 8 /\ metrics.ram_total_gb > GB(16)
        THEN pack("Good",
                  <<"Solid balance; consider RAM or NVMe upgrades if workloads grow.">>, <<>>)
        ELSE pack("Limited",
                  <<"Basic dev work only; more cores or RAM would help.">>, <<>>))

\* role_rating: "Developer workstation"
RateWorkstation(ratings, metrics) ==
    Put(ratings, "Developer workstation",
        IF metrics.threads >= 16 /\ metrics.ram_total_gb >= GB(32)
        THEN pack("Excellent",
                  <<"Plenty of CPU threads and RAM for IDEs, containers, and VMs.">>, <<>>)
        ELSE IF metrics.threads >= 8 /\ metrics.ram_total_gb >= GB(16)
        THEN pack("Good",
                  <<"Solid balance; consider RAM or NVMe upgrades if workloads grow.">>, <<>>)
        ELSE pack("Limited",
                  <<"Basic dev work only; more cores or RAM would help.">>, <<>>))

\* role_rating: "Developer server"
RateServer(ratings, metrics) ==
    LET server_notes ==
            IF metrics.virtualization # ""
            THEN << <<"Virtualization extensions detected (", metrics.virtualization, ").">> >>
            ELSE <<>>
    IN  Put(ratings, "Developer server",
            IF metrics.ram_total_gb >= GB(64) /\ metrics.threads >= 24
            THEN pack("Good", <<"Comfortable for multiple VMs or container stacks.">>,
                      server_notes)
            ELSE IF metrics.ram_total_gb >= GB(32) /\ metrics.threads >= 16
            THEN pack("Limited", <<"Can host a few services; heavier use may need upgrades.">>,
                      Append(server_notes,
                          <<"Consider more RAM or ECC platform for heavier multi-tenant loads.">>))
            ELSE pack("Not ideal", <<"Upgrade RAM/CPU or offload heavier services.">>,
                      Append(server_notes,
                          <<"Specs under typical server thresholds; keep workloads light.">>)))

\* role_rating: "LLM / ML"
RateMl(ratings, metrics) ==
    Put(ratings, "LLM / ML",
        IF metrics.has_dedicated_gpu
        THEN IF metrics.gpu_vram_gb >= GB(16)
             THEN pack("Fair",
                       <<"Discrete GPU with about ">> \o Fmt1fGb(metrics.gpu_vram_gb)
                           \o <<" GB VRAM supports small/medium models.">>,
                       <<>>)
             ELSE IF metrics.gpu_vram_gb >= GB(8)
             THEN pack("Limited",
                       <<"Approximately ">> \o Fmt1fGb(metrics.gpu_vram_gb)
                           \o <<" GB VRAM; use distilled models or consider external GPU.">>,
                       << <<"VRAM limits you to compact or quantized models.">> >>)
             ELSE pack("Limited",
                       <<"Add a higher-VRAM GPU or use cloud resources for serious ML.">>,
                       << <<"GPU VRAM is minimal for ML; expect CPU-bound inference.">> >>)
        ELSE pack("Not ideal", <<"Add a discrete GPU or use cloud resources.">>,
                  << <<"No discrete GPU detected; ML workloads will be CPU-bound and slow.">> >>))

\* fault: the media rule stores its rating under the ML key
RateMediaUnderMlKey(ratings, metrics) ==
    Put(ratings, "LLM / ML",
        IF metrics.has_dedicated_gpu
        THEN pack("Good",
                  <<"Discrete GPU should accelerate encoding and multiple streams.">>, <<>>)
        ELSE pack("Limited", <<"Consider adding a discrete GPU or hardware encoder.">>,
                  << <<"Integrated graphics can handle light streaming; heavy multi-stream loads may struggle.">> >>))

\* role_rating: "Media / streaming"
RateMedia(ratings, metrics) ==
    Put(ratings, "Media / streaming",
        IF metrics.has_dedicated_gpu
        THEN pack("Good",
                  <<"Discrete GPU should accelerate encoding and multiple streams.">>, <<>>)
        ELSE pack("Limited", <<"Consider adding a discrete GPU or hardware encoder.">>,
                  << <<"Integrated graphics can handle light streaming; heavy multi-stream loads may struggle.">> >>))

\* role_rating: "NAS / DB"
RateNas(ratings, metrics) ==
    Put(ratings, "NAS / DB",
        IF metrics.storage_total >= 3 \/ metrics.storage_nvme >= 2
        THEN pack("Fair", <<"Usable for lightweight NAS/DB duties.">>,
                  << <<"Multiple drives present; add redundancy (RAID/ZFS) as needed.">> >>)
        ELSE pack("Limited", <<"Expand storage and consider ECC memory for reliability.">>,
                  << <<"Only one storage device detected; add more drives for redundancy and performance.">> >>))

\* role_rating(metrics): the five rules, applied in order to an empty dict
role_rating(metrics) ==
    RateNas(RateMedia(RateMl(RateServer(RateWorkstation(<<>>, metrics), metrics),
                             metrics), metrics), metrics)

\* STORAGE_HINTS, in the order its items are visited
STORAGE_HINTS ==
    << [key |-> "Raider GE78 HX 14VGG", nvme_slots |-> Some(2),
        notes |-> "MSI documentation indicates two M.2 NVMe slots (PCIe Gen5 x4 primary, PCIe Gen4 x4 secondary)."],
       [key |-> "Raider GE78", nvme_slots |-> Some(2),
        notes |-> "GE78 chassis typically offers two M.2 NVMe slots; confirm in the service manual for your exact sub-model."] >>

\* the product names dmidecode can report, or None
ProductNames == {None, Some("Raider GE78 HX 14VGG"), Some("ThinkPad T14")}

\* product_name.startswith(key) on the names and keys above
StartsWith(product_name, key) ==
    \/ product_name = key
    \/ product_name = "Raider GE78 HX 14VGG" /\ key = "Raider GE78"

\* the first hint whose key the product name starts with, or None
RECURSIVE MatchHint(_, _)
MatchHint(product_name, hints) ==
    IF hints = <<>> THEN None
    ELSE IF StartsWith(product_name, hints[1].key) THEN Some(hints[1])
    ELSE MatchHint(product_name, Tail(hints))

\* storage_slot_hint(product_name, disks)
storage_slot_hint(product_name, disks) ==
    IF ~Truthy(product_name)
    THEN <<"Model name unavailable; consult the service manual for storage slot details.">>
    ELSE LET matched_hint == MatchHint(product_name[1], STORAGE_HINTS)
         IN  IF matched_hint = None
             THEN <<"No model-specific storage slot data; inspect the chassis or vendor documentation.">>
             ELSE IF matched_hint[1].nvme_slots = None
             THEN IF matched_hint[1].notes # "" THEN <<matched_hint[1].notes>>
                  ELSE <<"Storage slot hint unavailable.">>
             ELSE LET nvme_slots == matched_hint[1].nvme_slots[1]
                      nvme_present == CountNvme(disks)
                      free_slots == nvme_slots - nvme_present
                  IN  IF free_slots > 0
                      THEN <<matched_hint[1].notes, " ", "Detected ", ToString(nvme_present),
                             "/", ToString(nvme_slots), " NVMe slots populated; about ",
                             ToString(free_slots), " slot(s) likely free.">>
                      ELSE <<matched_hint[1].notes, " ", "Detected ", ToString(nvme_present),
                             "/", ToString(nvme_slots), " NVMe slots populated.">>

\* "likely free" in storage_hint_text.lower()
MentionsLikelyFree(text) == \E i \in 1..Len(text) : text[i] = " slot(s) likely free."

\* what nvme list printed: nothing, its table, or something else
NvmeRaws == {"", "Node SN Model\n/dev/nvme0n1 Device", "No NVMe devices"}

\* "Device" in nvme_raw
HasDeviceWord(nvme_raw) == nvme_raw = "Node SN Model\n/dev/nvme0n1 Device"

\* f"{value:.0f}" of a size counted in 1/1024 GB (round half to even)
Fmt0fGb(v) ==
    LET q == v \div 1024
        r == v % 1024
    IN  ToString(IF r > 512 \/ (r = 512 /\ q % 2 = 1) THEN q + 1 ELSE q)

\* fault: the capacity test is an if, not an elif
MemoryTipsBoth(metrics) ==
    (IF metrics.ram_empty > 0
     THEN << <<"Populate the ", ToString(metrics.ram_empty),
               " empty memory slot(s) to expand RAM.">> >>
     ELSE <<>>)
    \o (IF metrics.ram_total_gb # 0 /\ metrics.ram_max_capacity_gb # None
            /\ metrics.ram_max_capacity_gb[1] # 0
         THEN IF metrics.ram_total_gb < metrics.ram_max_capacity_gb[1]
              THEN << <<"Replace existing SODIMMs to move toward the ",
                        Fmt0fGb(metrics.ram_max_capacity_gb[1]), " GB platform ceiling.">> >>
              ELSE << <<"System is already at the reported maximum memory capacity.">> >>
         ELSE <<>>)

\* upgrade_suggestions: the memory tip
MemoryTips(metrics) ==
    IF metrics.ram_empty > 0
    THEN << <<"Populate the ", ToString(metrics.ram_empty),
              " empty memory slot(s) to expand RAM.">> >>
    ELSE IF metrics.ram_total_gb # 0 /\ metrics.ram_max_capacity_gb # None
            /\ metrics.ram_max_capacity_gb[1] # 0
    THEN IF metrics.ram_total_gb < metrics.ram_max_capacity_gb[1]
         THEN << <<"Replace existing SODIMMs to move toward the ",
                   Fmt0fGb(metrics.ram_max_capacity_gb[1]), " GB platform ceiling.">> >>
         ELSE << <<"System is already at the reported maximum memory capacity.">> >>
    ELSE <<>>

\* upgrade_suggestions: the storage tip
StorageTips(metrics) ==
    IF metrics.storage_total <= 1
    THEN << <<"Only one storage device detected; add another NVMe/SATA drive for capacity or redundancy.">> >>
    ELSE <<>>

\* upgrade_suggestions: the GPU tip
GpuTips(metrics) ==
    IF ~metrics.has_dedicated_gpu
    THEN << <<"No discrete GPU detected; add one if ML or media workloads are important and the chassis supports it.">> >>
    ELSE <<>>

\* upgrade_suggestions: the tip about a free M.2 slot
SlotTips(storage_hint_text) ==
    IF storage_hint_text # <<>> /\ MentionsLikelyFree(storage_hint_text)
    THEN << <<"Use the free M.2 slot for a second NVMe SSD if additional fast storage is needed.">> >>
    ELSE <<>>

\* upgrade_suggestions: the tip about nvme-cli
ToolingTips(nvme_raw) ==
    IF nvme_raw # "" /\ ~HasDeviceWord(nvme_raw)
    THEN << <<"Install nvme-cli for deeper NVMe diagnostics (temperature, firmware, spare space).">> >>
    ELSE <<>>

\* upgrade_suggestions(metrics, disks, nvme_raw, storage_hint_text)
upgrade_suggestions(metrics, disks, nvme_raw, storage_hint_text) ==
    MemoryTips(metrics) \o StorageTips(metrics) \o GpuTips(metrics)
        \o SlotTips(storage_hint_text) \o ToolingTips(nvme_raw)

\* fault: nothing is written when there are no tips
UpgradeSectionBare(tips) == [i \in 1..Len(tips) |-> <<"- ">> \o tips[i]]

\* format_markdown: the lines under "## Upgrade Opportunities"
UpgradeSection(tips) ==
    IF tips # <<>>
    THEN [i \in 1..Len(tips) |-> <<"- ">> \o tips[i]]
    ELSE << <<"- No obvious upgrades suggested by current readings.">> >>

\* what main() holds after its collectors: the collected inputs, then what
\* each later call adds; stage names the latest call made
Assessment(stage, inputs, metrics, ratings, storage_hint_text, tips, section) ==
    [stage |-> stage, inputs |-> inputs, metrics |-> metrics, ratings |-> ratings,
     storage_hint_text |-> storage_hint_text, tips |-> tips, section |-> section]

NoAssessment == Assessment("none", None, None, None, None, None, None)

\* metrics = metrics_from_data(cpu, mem_info, total_mem_mb, gpus_pci, gpus_nv, disks)
Derive ==
    /\ assess.stage = "none"
    /\ \E cpu \in Cpus, mem_info \in MemInfos, total_mem_mb \in TotalMemMb,
          gpu \in Gpus, disks \in DiskLists :
        assess' = [assess EXCEPT
            !.stage = "metrics",
            !.inputs = Some([cpu |-> cpu, mem_info |-> mem_info,
                             total_mem_mb |-> total_mem_mb, gpus_pci |-> gpu.gpus_pci,
                             gpus_nv |-> gpu.gpus_nv, disks |-> disks]),
            !.metrics = Some(metrics_from_data(cpu, mem_info, total_mem_mb,
                                               gpu.gpus_pci, gpu.gpus_nv, disks))]
    /\ UNCHANGED <<euid0, priv, warned, log, calls, advisories, lastCfg, lastCall, pc, job, others>>

\* ratings = role_rating(metrics)
Rate ==
    /\ assess.stage = "metrics"
    /\ assess' = [assess EXCEPT !.stage = "ratings",
                                !.ratings = Some(role_rating(assess.metrics[1]))]
    /\ UNCHANGED <<euid0, priv, warned, log, calls, advisories, lastCfg, lastCall, pc, job, others>>

\* storage_hint_text = storage_slot_hint(system.get("product_name"), disks)
Hint ==
    /\ assess.stage = "ratings"
    /\ \E product_name \in ProductNames :
        assess' = [assess EXCEPT
            !.stage = "hint",
            !.inputs = Some([field \in DOMAIN assess.inputs[1] \cup {"product_name"} |->
                                IF field = "product_name" THEN product_name
                                ELSE assess.inputs[1][field]]),
            !.storage_hint_text =
                Some(storage_slot_hint(product_name, assess.inputs[1].disks))]
    /\ UNCHANGED <<euid0, priv, warned, log, calls, advisories, lastCfg, lastCall, pc, job, others>>

\* tips = upgrade_suggestions(metrics, disks, nvme_raw, storage_hint_text)
Suggest ==
    /\ assess.stage = "hint"
    /\ \E nvme_raw \in NvmeRaws :
        assess' = [assess EXCEPT
            !.stage = "tips",
            !.inputs = Some([field \in DOMAIN assess.inputs[1] \cup {"nvme_raw"} |->
                                IF field = "nvme_raw" THEN nvme_raw
                                ELSE assess.inputs[1][field]]),
            !.tips = Some(upgrade_suggestions(assess.metrics[1], assess.inputs[1].disks,
                                              nvme_raw, assess.storage_hint_text[1]))]
    /\ UNCHANGED <<euid0, priv, warned, log, calls, advisories, lastCfg, lastCall, pc, job, others>>

\* report = format_markdown(..., tips, ...)
Render ==
    /\ assess.stage = "tips"
    /\ assess' = [assess EXCEPT !.stage = "report",
                                !.section = Some(UpgradeSection(assess.tips[1]))]
    /\ UNCHANGED <<euid0, priv, warned, log, calls, advisories, lastCfg, lastCall, pc, job, others>>

\* ------------------------------------------------------- memory speed texts
\* the integers a run of digits in a speed text can spell
SpeedValues == {8, 800, 4800, 5600}

\* dev.get("Configured Memory Speed") or dev.get("Speed"): None, or a text,
\* given by the values of its runs of digits in the order they are written
\* (<<>>: the empty text and any text without a digit)
SpeedTexts == {None} \cup {Some(runs) : runs \in UNION {[1..n -> SpeedValues] : n \in 0..MaxRuns}}

\* max(values)
MaxOf(values) ==
    CHOOSE v \in {values[i] : i \in DOMAIN values} : \A i \in DOMAIN values : values[i] <= v

\* fault: the values are scanned from the start of the text
parse_speed_mts_forward(text) ==
    IF text = None \/ text[1] = <<>> THEN None
    ELSE LET values == text[1]
             hits == {i \in DOMAIN values : values[i] >= 1000}
         IN  IF hits # {}
             THEN Some(values[CHOOSE i \in hits : \A j \in hits : j >= i])
             ELSE Some(MaxOf(values))

\* parse_speed_mts(text): the first value >= 1000 met in reversed(values),
\* else max(values)
parse_speed_mts(text) ==
    IF text = None \/ text[1] = <<>> THEN None
    ELSE LET values == text[1]
             hits == {i \in DOMAIN values : values[i] >= 1000}
         IN  IF hits # {}
             THEN Some(values[CHOOSE i \in hits : \A j \in hits : j <= i])
             ELSE Some(MaxOf(values))

\* a call of parse_speed_mts
ParseSpeed ==
    /\ \E text \in SpeedTexts :
        speed' = Some([text |-> text, result |-> parse_speed_mts(text)])
    /\ UNCHANGED <<euid0, priv, warned, log, calls, advisories, lastCfg, lastCall, pc, job,
                   assess, found, sshCheck, hosts, jobs, reports, tasks>>

\* ------------------------------------------------------------ host discovery
DiscoveredHost(hostname, address, source, tags, alias) ==
    [hostname |-> hostname, address |-> address, source |-> source, tags |-> tags,
     alias |-> alias]

\* what discover_avahi() can return
AvahiEntries ==
    { DiscoveredHost("Alpha.local", Some("192.168.1.10"), "avahi", {"avahi"}, None),
      DiscoveredHost("alpha.local", Some("fe80::1"), "avahi", {"avahi"}, None),
      DiscoveredHost("beta.local.", None, "avahi", {"avahi", "_workstation._tcp"}, None) }

\* what discover_ssh_config() can return
SshEntries ==
    { DiscoveredHost("alpha.local", Some("alpha.local"), "ssh-config",
                     {"ssh-config", "user:dev"}, Some("dev@alpha.local")),
      DiscoveredHost("nas", Some("192.168.1.10"), "ssh-config", {"ssh-config"}, Some("nas")),
      DiscoveredHost("beta", Some("beta"), "ssh-config", {"ssh-config", "port:2222"},
                     Some("beta")) }

\* _sanitize_hostname(name) of the names above: the characters kept, then
\* strip(" .")
sanitize_hostname(name) == IF name = "beta.local." THEN "beta.local" ELSE name

\* normalize_hostname(name): lower-cased, first token, without ".local"
normalize_hostname(name) ==
    LET lowered == IF sanitize_hostname(name) = "Alpha.local" THEN "alpha.local"
                   ELSE sanitize_hostname(name)
    IN  CASE lowered = "" -> ""
          [] lowered = "alpha.local" -> "alpha"
          [] lowered = "beta.local" -> "beta"
          [] OTHER -> lowered

\* entry.address if entry.source == "ssh-config" and entry.address else
\* entry.hostname
Candidate(entry) ==
    IF entry.source = "ssh-config" /\ Truthy(entry.address) THEN entry.address[1]
    ELSE entry.hostname

\* _preferred_hostname(entry)
preferred_hostname(entry) ==
    IF sanitize_hostname(Candidate(entry)) # "" THEN sanitize_hostname(Candidate(entry))
    ELSE entry.hostname

\* ensure_group: the key under which an entry is filed
GroupKey(entry) ==
    IF normalize_hostname(Candidate(entry)) # "" THEN normalize_hostname(Candidate(entry))
    ELSE IF normalize_hostname(entry.hostname) # "" THEN normalize_hostname(entry.hostname)
    ELSE entry.hostname

\* fault: an entry replaces what its group held
RECURSIVE MergeEntriesOverwrite(_, _)
MergeEntriesOverwrite(aggregates, entries) ==
    IF entries = <<>> THEN aggregates
    ELSE LET entry == Head(entries)
             merged == [hostname |-> preferred_hostname(entry),
                        addresses |-> IF Truthy(entry.address) THEN {entry.address[1]} ELSE {},
                        sources |-> {entry.source}, tags |-> entry.tags,
                        ssh_aliases |-> IF Truthy(entry.alias) THEN {entry.alias[1]} ELSE {},
                        warnings |-> <<>>]
         IN  MergeEntriesOverwrite(
                 [key \in DOMAIN aggregates \cup {GroupKey(entry)} |->
                     IF key = GroupKey(entry) THEN merged ELSE aggregates[key]],
                 Tail(entries))

\* the two loops of discover_hosts over the entries of one source, in order:
\* each entry is added to the group of its key, which ensure_group creates
\* when it is new
RECURSIVE MergeEntries(_, _)
MergeEntries(aggregates, entries) ==
    IF entries = <<>> THEN aggregates
    ELSE LET entry == Head(entries)
             preferred == preferred_hostname(entry)
             group == IF GroupKey(entry) \in DOMAIN aggregates
                      THEN aggregates[GroupKey(entry)]
                      ELSE [hostname |-> preferred, addresses |-> {}, sources |-> {},
                            tags |-> {}, ssh_aliases |-> {}, warnings |-> <<>>]
             merged == [group EXCEPT
                 !.addresses = IF Truthy(entry.address) THEN @ \cup {entry.address[1]} ELSE @,
                 !.sources = @ \cup {entry.source},
                 !.tags = @ \cup entry.tags,
                 !.ssh_aliases = IF entry.source = "ssh-config" /\ Truthy(entry.alias)
                                 THEN @ \cup {entry.alias[1]} ELSE @,
                 !.hostname = IF entry.source = "ssh-config"
                              THEN (IF preferred # "" THEN preferred ELSE @)
                              ELSE (IF @ = "" THEN preferred ELSE @)]
         IN  MergeEntries(
                 [key \in DOMAIN aggregates \cup {GroupKey(entry)} |->
                     IF key = GroupKey(entry) THEN merged ELSE aggregates[key]],
                 Tail(entries))

\* fault: the warning is given to the groups that have an SSH-config entry
WarningsOfSshGroups(group) ==
    IF "ssh-config" \in group.sources
    THEN Append(group.warnings, "No SSH configuration entry found; verify SSH access.")
    ELSE group.warnings

\* the warnings of an aggregate
WarningsOf(group) ==
    IF "ssh-config" \notin group.sources
    THEN Append(group.warnings, "No SSH configuration entry found; verify SSH access.")
    ELSE group.warnings

\* discover_hosts(), avahi and ssh being what discover_avahi() and
\* discover_ssh_config() return: the keys in sorted order and, for each, its
\* AggregatedDiscovery; a sorted list of a set is kept as the set
discover_hosts(avahi, ssh) ==
    LET aggregates == MergeEntries(MergeEntries(<<>>, avahi), ssh)
        InAggregates(key) == key \in DOMAIN aggregates
        keys == SelectSeq(<<"192.168.1.10", "alpha", "beta">>, InAggregates)
        Display(group) ==
            IF group.hostname # "" /\ sanitize_hostname(group.hostname) # ""
            THEN sanitize_hostname(group.hostname)
            ELSE IF group.hostname # "" THEN group.hostname
            ELSE IF group.addresses # {} THEN CHOOSE a \in group.addresses : TRUE
            ELSE ""
    IN  [keys |-> keys,
         aggregated_list |->
            [i \in 1..Len(keys) |->
                [hostname |-> Display(aggregates[keys[i]]),
                 addresses |-> aggregates[keys[i]].addresses,
                 sources |-> aggregates[keys[i]].sources,
                 tags |-> aggregates[keys[i]].tags,
                 ssh_aliases |-> aggregates[keys[i]].ssh_aliases,
                 warnings |-> WarningsOf(aggregates[keys[i]])]]]

\* a call of discover_hosts
Discover ==
    /\ \E avahi \in UNION {[1..n -> AvahiEntries] : n \in 0..MaxEntries},
          ssh \in UNION {[1..n -> SshEntries] : n \in 0..MaxSshEntries} :
        found' = Some([avahi |-> avahi, ssh |-> ssh, got |-> discover_hosts(avahi, ssh)])
    /\ UNCHANGED <<euid0, priv, warned, log, calls, advisories, lastCfg, lastCall, pc, job,
                   assess, speed, sshCheck, hosts, jobs, reports, tasks>>

\* what the ssh probe of verify_ssh can do: shutil.which finds no ssh
\* ("missing"), ssh exits, or subprocess.run raises TimeoutExpired, whose
\* stderr is None when nothing was read from the pipe and the bytes read
\* otherwise ("b'...'"); the empty str is what the repository's test raises
SshOutcomes ==
    {[kind |-> "missing", returncode |-> 0, stderr |-> None]}
        \cup [kind : {"exit"}, returncode : {0, 1, 255},
              stderr : {Some(""), Some("Permission denied (publickey).\n"),
                        Some("Connection refused\n")}]
        \cup [kind : {"timeout"}, returncode : {0},
              stderr : {None, Some(""), Some("b'Warning: Permanently added'")}]

\* verify_ssh(target, timeout), outcome being what the probe does within
\* timeout + 1 seconds: the SSHCheckResult returned or the exception raised
verify_ssh(target, timeout, outcome) ==
    LET stripped == CASE outcome.stderr = Some("Permission denied (publickey).\n") ->
                            "Permission denied (publickey)."
                      [] outcome.stderr = Some("Connection refused\n") -> "Connection refused"
                      [] OTHER -> ""
        SSHCheckResult(reachable, authenticated, returncode, stderr) ==
            [target |-> target, reachable |-> reachable, authenticated |-> authenticated,
             returncode |-> returncode, stderr |-> stderr]
    IN  CASE outcome.kind = "missing" ->
                [raised |-> None,
                 value |-> Some(SSHCheckResult(FALSE, FALSE, -1, "ssh executable not found"))]
          [] outcome.kind = "timeout" ->
                IF outcome.stderr = Some("b'Warning: Permanently added'")
                THEN [raised |-> Some("TypeError"), value |-> None]
                ELSE [raised |-> None,
                      value |-> Some(SSHCheckResult(FALSE, FALSE, -1, "command timed out"))]
          [] OTHER ->
                [raised |-> None,
                 value |-> Some(SSHCheckResult(
                     outcome.returncode = 0
                         \/ stripped = "Permission denied (publickey).",
                     outcome.returncode = 0, outcome.returncode, stripped))]

\* a call of verify_ssh
VerifySsh ==
    /\ \E target \in {"alpha.local", "192.168.1.10"}, timeout \in {20, 50},
          outcome \in SshOutcomes :
        sshCheck' = Some([target |-> target, timeout |-> timeout, outcome |-> outcome,
                          got |-> verify_ssh(target, timeout, outcome)])
    /\ UNCHANGED <<euid0, priv, warned, log, calls, advisories, lastCfg, lastCall, pc, job,
                   assess, speed, found, hosts, jobs, reports, tasks>>

\* ---------------------------------------------------- the API server's jobs
\* the host table: one row for the machine the server runs on, one for a
\* machine reached over SSH; the row's id is its index
HostRows ==
    << [hostname |-> "workbench", address |-> None, ssh_target |-> Some("LocalHost")],
       [hostname |-> "nas", address |-> Some("10.0.0.5"), ssh_target |-> Some("10.0.0.5")] >>

LOCAL_ADDRESS_TOKENS == {"localhost", "127.0.0.1", "::1"}

\* socket.gethostname().lower() and socket.getfqdn().lower() of the server
LOCAL_HOSTNAMES == {"hic", "hic.lan"}

\* value.lower() of the tokens of the host table
LowerToken(value) == IF value = "LocalHost" THEN "localhost" ELSE value

\* _is_local_host(host)
is_local_host(host) ==
    \E value \in {host.ssh_target, host.address, Some(host.hostname)} :
        /\ Truthy(value)
        /\ LowerToken(value[1]) \in LOCAL_ADDRESS_TOKENS \cup LOCAL_HOSTNAMES

\* models.AssessmentJob(host_id=...)
AssessmentJob(host_id) ==
    [host_id |-> host_id, status |-> "queued", started_at |-> None,
     finished_at |-> None, error_message |-> None]

\* models.Report(job_id=..., rendered_markdown=..., raw_payload=...)
Report(job_id, rendered_markdown, raw_payload) ==
    [job_id |-> job_id, rendered_markdown |-> rendered_markdown,
     raw_payload |-> raw_payload]

\* datetime.utcnow()
utcnow == "utcnow"

\* a call that returned a value, and a call that raised
Returns(value) == [raised |-> None, value |-> Some(value)]
Raises(exception) == [raised |-> Some(exception), value |-> None]

\* json.loads(text) of the texts a remote assessor can print
JsonLoads(text) ==
    CASE text = "{\"markdown\": \"# nas\"}" ->
            Returns([type |-> "dict", markdown |-> Some("# nas")])
      [] text = "{\"system\": {}}" -> Returns([type |-> "dict", markdown |-> None])
      [] text = "[1]" -> Returns([type |-> "list", markdown |-> None])
      [] OTHER -> Raises("JSONDecodeError")

\* candidate[candidate.find("{"):], or None when there is no "{"
FromBrace(candidate) ==
    CASE candidate = "motd {\"markdown\": \"# nas\"}" -> Some("{\"markdown\": \"# nas\"}")
      [] candidate = "{\"markdown\": \"# nas\"}" -> Some(candidate)
      [] candidate = "{\"system\": {}}" -> Some(candidate)
      [] candidate = "{oops" -> Some(candidate)
      [] OTHER -> None

\* _parse_json_output(text)
parse_json_output(text) ==
    LET candidate == Strip(text)
    IN  IF candidate = "" THEN Raises("RuntimeError")
        ELSE IF JsonLoads(candidate).raised = None THEN JsonLoads(candidate)
        ELSE IF FromBrace(candidate) # None
        THEN IF JsonLoads(FromBrace(candidate)[1]).raised = None
             THEN JsonLoads(FromBrace(candidate)[1])
             ELSE Raises("RuntimeError")
        ELSE Raises("JSONDecodeError")

\* what subprocess.run can do with the ssh command of a remote assessment
RemoteOutcomes ==
    { [kind |-> "exit", returncode |-> 0, stdout |-> "{\"markdown\": \"# nas\"}"],
      [kind |-> "exit", returncode |-> 0, stdout |-> "{\"system\": {}}"],
      [kind |-> "exit", returncode |-> 0, stdout |-> "motd {\"markdown\": \"# nas\"}"],
      [kind |-> "exit", returncode |-> 0, stdout |-> "[1]"],
      [kind |-> "exit", returncode |-> 0, stdout |-> "{oops"],
      [kind |-> "exit", returncode |-> 0, stdout |-> " "],
      [kind |-> "exit", returncode |-> 255, stdout |-> ""],
      [kind |-> "timeout", returncode |-> 0, stdout |-> ""] }

\* _run_remote_assessment(host), proc being what subprocess.run did
run_remote_assessment(host, proc) ==
    IF proc.kind = "timeout" THEN Raises("TimeoutExpired")
    ELSE IF proc.returncode # 0 THEN Raises("RuntimeError")
    ELSE parse_json_output(proc.stdout)

\* what hw_assessor.generate_report_data() can do: return the report data, or
\* let an exception of a collector through
LocalOutcomes ==
    { Returns([type |-> "dict", markdown |-> Some("# workbench")]), Raises("TypeError") }

\* _run_local_assessment(): cfg is what configure_privileges did, data what
\* generate_report_data() does
run_local_assessment(cfg, data) ==
    IF cfg.raised = "SystemExit" THEN Raises("RuntimeError") ELSE data

\* a background task: where _run_assessment(job_id) is, the host it read, and
\* the report data it holds
Task(at, host_snapshot, report_data) ==
    [at |-> at, host_snapshot |-> host_snapshot, report_data |-> report_data]

\* create_job: a job row for an existing host, and its background task
CreateJob ==
    /\ Len(jobs) < MaxJobs
    /\ \E host_id \in hosts :
        /\ jobs' = Append(jobs, AssessmentJob(host_id))
        /\ tasks' = Append(tasks, Task("scheduled", None, None))
    /\ UNCHANGED <<euid0, priv, warned, log, calls, advisories, lastCfg, lastCall, pc, job,
                   assess, speed, found, sshCheck, hosts, reports>>

\* a host row is deleted from the database, which no route does
DropHost ==
    /\ \E host_id \in hosts : hosts' = hosts \ {host_id}
    /\ UNCHANGED <<euid0, priv, warned, log, calls, advisories, lastCfg, lastCall, pc, job,
                   assess, speed, found, sshCheck, jobs, reports, tasks>>

\* _run_assessment, its first session: the job becomes "error" when its host
\* is gone, "running" otherwise
RunAssessmentOpen ==
    /\ \E job_id \in DOMAIN tasks :
        /\ tasks[job_id].at = "scheduled"
        /\ IF jobs[job_id].host_id \notin hosts
           THEN /\ jobs' = [jobs EXCEPT ![job_id].status = "error",
                                        ![job_id].error_message = Some("Host record missing"),
                                        ![job_id].finished_at = Some(utcnow)]
                /\ tasks' = [tasks EXCEPT ![job_id].at = "returned"]
           ELSE /\ jobs' = [jobs EXCEPT ![job_id].status = "running",
                                        ![job_id].started_at = Some(utcnow),
                                        ![job_id].error_message = None]
                /\ tasks' = [tasks EXCEPT
                        ![job_id].at = "running",
                        ![job_id].host_snapshot = Some(HostRows[jobs[job_id].host_id])]
    /\ UNCHANGED <<euid0, priv, warned, log, calls, advisories, lastCfg, lastCall, pc, job,
                   assess, speed, found, sshCheck, hosts, reports>>

\* _run_assessment enters _collect_assessment_for_host(host_snapshot)
RunAssessmentEnter ==
    /\ \E job_id \in DOMAIN tasks :
        /\ tasks[job_id].at = "running"
        /\ tasks' = [tasks EXCEPT ![job_id].at = "collecting"]
    /\ UNCHANGED <<euid0, priv, warned, log, calls, advisories, lastCfg, lastCall, pc, job,
                   assess, speed, found, sshCheck, hosts, jobs, reports>>

\* fault: the except branch does not set finished_at
StoreErrorKeepsClock(job_id, exception) ==
    /\ jobs' = [jobs EXCEPT ![job_id].status = "error",
                            ![job_id].error_message = Some(exception)]
    /\ tasks' = [tasks EXCEPT ![job_id].at = "returned"]

\* the except branch of _run_assessment
StoreError(job_id, exception) ==
    /\ jobs' = [jobs EXCEPT ![job_id].status = "error",
                            ![job_id].error_message = Some(exception),
                            ![job_id].finished_at = Some(utcnow)]
    /\ tasks' = [tasks EXCEPT ![job_id].at = "returned"]

\* _collect_assessment_for_host returns or raises; an exception is caught
\* and stored in the job
RunAssessmentCollect ==
    /\ \E job_id \in DOMAIN tasks :
        /\ tasks[job_id].at = "collecting"
        /\ IF is_local_host(tasks[job_id].host_snapshot[1])
           THEN \E probe \in ProbeOutcomes, data \in LocalOutcomes :
                    LET cfg == configure_privileges(priv, "auto", FALSE, euid0, probe,
                                                    "", "exit1")
                        got == run_local_assessment(cfg, data)
                    IN  /\ cfg.probed \/ probe = "exit0"
                        /\ priv' = cfg.state
                        /\ IF got.raised # None THEN StoreError(job_id, got.raised[1])
                           ELSE /\ tasks' = [tasks EXCEPT ![job_id].at = "collected",
                                                          ![job_id].report_data = got.value]
                                /\ jobs' = jobs
           ELSE \E proc \in RemoteOutcomes :
                    LET got == run_remote_assessment(tasks[job_id].host_snapshot[1], proc)
                    IN  /\ priv' = priv
                        /\ IF got.raised # None THEN StoreError(job_id, got.raised[1])
                           ELSE /\ tasks' = [tasks EXCEPT ![job_id].at = "collected",
                                                          ![job_id].report_data = got.value]
                                /\ jobs' = jobs
    /\ UNCHANGED <<euid0, warned, log, calls, advisories, lastCfg, lastCall, pc, job,
                   assess, speed, found, sshCheck, hosts, reports>>

\* _run_assessment after the try: report_data.get("markdown", "") and
\* json.dumps(report_data), outside any handler, then the session that stores
\* "completed" and the Report in one commit
RunAssessmentStore ==
    /\ \E job_id \in DOMAIN tasks :
        /\ tasks[job_id].at = "collected"
        /\ LET report_data == tasks[job_id].report_data[1]
               markdown == IF report_data.markdown # None THEN report_data.markdown[1]
                           ELSE ""
           IN  IF report_data.type # "dict"
               THEN /\ tasks' = [tasks EXCEPT ![job_id].at = "died"]
                    /\ UNCHANGED <<jobs, reports>>
               ELSE /\ jobs' = [jobs EXCEPT ![job_id].status = "completed",
                                            ![job_id].finished_at = Some(utcnow),
                                            ![job_id].error_message = None]
                    /\ reports' = Append(reports, Report(job_id, markdown, report_data))
                    /\ tasks' = [tasks EXCEPT ![job_id].at = "returned"]
    /\ UNCHANGED <<euid0, priv, warned, log, calls, advisories, lastCfg, lastCall, pc, job,
                   assess, speed, found, sshCheck, hosts>>

\* ----------------------------------------------------------------- actions
Modes == {"auto", "skip", "Require", "bogus"}
Entered == {"", "pw"}
Checks == {"exit0", "exit1"}

Init ==
    /\ euid0 \in BOOLEAN
    /\ priv = PrivilegeState(euid0)
    /\ warned = FALSE
    /\ log = <<>>
    /\ calls = <<>>
    /\ advisories = 0
    /\ lastCfg = None
    /\ lastCall = None
    /\ pc = "idle"
    /\ job = NoJob
    /\ assess = NoAssessment
    /\ speed = None
    /\ found = None
    /\ sshCheck = None
    /\ hosts = DOMAIN HostRows
    /\ jobs = <<>>
    /\ reports = <<>>
    /\ tasks = <<>>

\* the answers of the probe, of getpass() and of the password check are
\* inputs only where the negotiation asks for them
Asked(cfg, probe, entered, check) ==
    /\ cfg.probed \/ probe = "exit0"
    /\ cfg.prompted # None \/ entered = ""
    /\ (cfg.prompted # None /\ entered # "") \/ check = "exit1"

\* one run() call and everything it changes
DoRun(cmd, timeout, optional, needs_root, outs) ==
    \E probe \in ProbeOutcomes, out \in outs, start \in StartTimes :
        /\ IsFailure(out) => FailCount(log) < MaxFailures
        /\ MustNegotiate(priv, needs_root) \/ probe = "exit0"
        /\ LET r == run(priv, warned, log, start, cmd, timeout, optional, needs_root,
                        euid0, probe, out, start + out.ticks)
           IN  /\ priv' = r.state
               /\ warned' = r.warned
               /\ log' = r.log
               /\ calls' = Append(calls, cmd)
               /\ advisories' = advisories + (IF r.advisory THEN 1 ELSE 0)
               /\ lastCfg' = IF r.negotiated
                             THEN CfgSeen("auto", FALSE, probe, "", "exit1", priv, r.cfg)
                             ELSE None
               /\ lastCall' = CallSeen(cmd, optional, needs_root, warned, out, r)
        /\ UNCHANGED <<euid0, assess, others>>

\* a direct call of configure_privileges
Configure ==
    /\ pc = "idle"
    /\ \E mode \in Modes, prompt \in BOOLEAN, probe \in ProbeOutcomes,
          entered \in Entered, check \in Checks :
        LET cfg == configure_privileges(priv, mode, prompt, euid0, probe, entered, check)
        IN  /\ Asked(cfg, probe, entered, check)
            /\ priv' = cfg.state
            /\ lastCfg' = CfgSeen(Lower(mode), prompt, probe, entered, check, priv, cfg)
    /\ lastCall' = None
    /\ UNCHANGED <<euid0, warned, log, calls, advisories, pc, job, assess, others>>

\* _reset_privileges_for_tests()
Reset ==
    /\ pc = "idle"
    /\ priv' = reset_privileges_for_tests(priv, euid0)
    /\ lastCfg' = None
    /\ lastCall' = None
    /\ UNCHANGED <<euid0, warned, log, calls, advisories, pc, job, assess, others>>

\* clear_command_log()
ClearLog ==
    /\ pc = "idle"
    /\ log # <<>>
    /\ log' = clear_command_log(log)
    /\ calls' = <<>>
    /\ lastCfg' = None
    /\ lastCall' = None
    /\ UNCHANGED <<euid0, priv, warned, advisories, pc, job, assess, others>>

DirectCmds == { <<"dmidecode", "-t", "memory">> }

\* a direct call of run()
Run ==
    /\ pc = "idle"
    /\ Len(log) < MaxLog
    /\ \E cmd \in DirectCmds, optional \in BOOLEAN, needs_root \in BOOLEAN :
        DoRun(cmd, 100, optional, needs_root, Outcomes)
    /\ UNCHANGED <<pc, job>>

MainModes == {"auto", "skip", "require"}

\* whether main() goes on to the collectors after the negotiation and the
\* search for the required tools
MainProceeds(raised, missing) == raised # "SystemExit" /\ ~missing

\* what main() returns when it does not go on
MainEarlyResult(raised, missing) ==
    IF raised = "SystemExit" THEN Some(1)
    ELSE IF missing THEN Some(1)
    ELSE None

\* main(argv) up to the first collector: the negotiation, then the search for
\* the required tools (missing: shutil.which found one of them absent)
MainStart ==
    /\ pc = "idle"
    /\ \E mode \in MainModes, prompt \in BOOLEAN, probe \in ProbeOutcomes,
          entered \in Entered, check \in Checks, missing \in BOOLEAN :
        LET cfg == configure_privileges(priv, mode, prompt, euid0, probe, entered, check)
            go == MainProceeds(cfg.raised, missing)
            seen == CfgSeen(mode, prompt, probe, entered, check, priv, cfg)
        IN  /\ Asked(cfg, probe, entered, check)
            /\ priv' = cfg.state
            /\ lastCfg' = seen
            /\ pc' = IF go THEN "collect" ELSE "done"
            /\ job' = JobRec(job.seq + 1, "main", mode, prompt, seen[1].probe_ok, seen[1].accepted,
                             cfg.raised, cfg.raised # "SystemExit" /\ missing,
                             IF go THEN 1 ELSE 0, 0, <<>>,
                             MainEarlyResult(cfg.raised, missing), FALSE)
    /\ lastCall' = None
    /\ UNCHANGED <<euid0, warned, log, calls, advisories, assess, others>>

\* _run_local_assessment() up to the first collector: the negotiation in mode
\* "auto" without a prompt; a SystemExit becomes a RuntimeError
LocalStart ==
    /\ pc = "idle"
    /\ job.seq < MaxAssessments
    /\ \E probe \in ProbeOutcomes :
        LET cfg == configure_privileges(priv, "auto", FALSE, euid0, probe, "", "exit1")
            go == cfg.raised # "SystemExit"
            seen == CfgSeen("auto", FALSE, probe, "", "exit1", priv, cfg)
        IN  /\ priv' = cfg.state
            /\ lastCfg' = seen
            /\ pc' = IF go THEN "collect" ELSE "idle"
            /\ job' = JobRec(job.seq + 1, "api", "auto", FALSE, seen[1].probe_ok,
                             seen[1].accepted, cfg.raised, FALSE,
                             IF go THEN 1 ELSE 0, 0, <<>>, None, FALSE)
    /\ lastCall' = None
    /\ UNCHANGED <<euid0, warned, log, calls, advisories, assess, others>>

\* whether a collector that takes stdout apart with str arguments raises
\* TypeError on it
RaisesTypeError(reads, result) == reads = "str" /\ IsBytes(result.stdout)

\* the next collector command of the assessment in progress, and what the
\* collector does with the result at once; a TypeError leaves main() and ends
\* the process with exit status 1
CollectStep ==
    /\ pc = "collect"
    /\ job.step <= Len(Collectors)
    /\ LET c == Collectors[job.step]
       IN  /\ DoRun(c.cmd, c.timeout, c.optional, c.needs_root, CollectorOutcomes)
           /\ LET result == lastCall'[1].result
              IN  IF RaisesTypeError(c.reads, result)
                  THEN /\ job' = [job EXCEPT !.runs = @ + 1, !.raised = "TypeError",
                                              !.collected = Append(@, Some(result)),
                                              !.result = Some(1)]
                       /\ pc' = IF job.kind = "main" THEN "done" ELSE "idle"
                  ELSE /\ job' = [job EXCEPT !.step = @ + 1, !.runs = @ + 1,
                                              !.collected = Append(@, Some(result))]
                       /\ pc' = pc

\* a collector whose tool shutil.which does not find returns without a command
SkipStep ==
    /\ pc = "collect"
    /\ job.step <= Len(Collectors)
    /\ Collectors[job.step].which
    /\ job' = [job EXCEPT !.step = @ + 1, !.collected = Append(@, None)]
    /\ lastCfg' = None
    /\ lastCall' = None
    /\ UNCHANGED <<euid0, priv, warned, log, calls, advisories, pc, assess, others>>

\* The tools' regular output is the text "out" (b'out' as bytes); what each
\* collector reads from it is the machine assessed: one 8-thread CPU with
\* VT-x, a memory array of one device holding 8 GB, 32768 MB in use by the
\* kernel, one NVMe disk, an Intel display adapter, one nvidia-smi row.

\* collect_system_info: info.get("product_name"), result being the second
\* of its three commands
collect_system_info(result) ==
    IF success(result) /\ result.stdout # "" THEN Some(result.stdout) ELSE None

\* collect_cpu_info: the fields read from raw.stdout, whatever raw's outcome
collect_cpu_info(raw) ==
    IF raw.stdout = "out" THEN [cpus |-> Some("8"), virtualization |-> "VT-x"]
    ELSE [cpus |-> None, virtualization |-> ""]

\* collect_memory_info: the devices and the array fields read from
\* raw.stdout, whatever raw's outcome
collect_memory_info(raw) ==
    IF raw.stdout = "out"
    THEN [devices |-> <<[Size |-> Some("8 GB"), Locator |-> Some("DIMM A")]>>,
          slot_count |-> Some(1), max_capacity_gb |-> Some(GB(16))]
    ELSE [devices |-> <<>>, slot_count |-> Some(0), max_capacity_gb |-> None]

\* main(): total_mem_mb, from re.search(r"Mem:\s+(\d+)", free_output.stdout)
TotalMemOf(free_output) == IF free_output.stdout = "out" THEN Some(32768) ELSE None

\* collect_storage: json.loads takes str and bytes alike
collect_storage(raw) ==
    IF raw.stdout = "out" \/ raw.stdout = "b'out'" THEN <<[tran |-> Some("nvme")]>>
    ELSE <<>>

\* collect_nvme: "" without the tool, result.stdout as it is otherwise
collect_nvme(result) == IF result = None THEN "" ELSE result[1].stdout

\* collect_gpu: the display lines of lspci, and the rows of nvidia-smi when
\* the tool is there
collect_gpu(pci, nvidia) ==
    Gpu(IF pci.stdout = "out" THEN <<"VGA compatible controller: Intel UHD">> ELSE <<>>,
        IF nvidia # None /\ nvidia[1].stdout = "out"
        THEN <<[name |-> "RTX", memory |-> "8192 MiB"]>> ELSE <<>>)

\* after the last collector of main(): metrics, ratings, hint, tips; the
\* report is printed and main() returns 0. upgrade_suggestions asks
\* '"Device" not in nvme_raw', a TypeError when nvme_raw is bytes.
Finish ==
    /\ pc = "collect"
    /\ job.kind = "main"
    /\ job.step = Len(Collectors) + 1
    /\ pc' = "done"
    /\ LET got == job.collected
           product_name == collect_system_info(got[2][1])
           cpu == collect_cpu_info(got[4][1])
           mem_info == collect_memory_info(got[5][1])
           total_mem_mb == TotalMemOf(got[6][1])
           disks == collect_storage(got[7][1])
           nvme_raw == collect_nvme(got[8])
           gpu == collect_gpu(got[9][1], got[10])
           inputs == [cpu |-> cpu, mem_info |-> mem_info, total_mem_mb |-> total_mem_mb,
                      gpus_pci |-> gpu.gpus_pci, gpus_nv |-> gpu.gpus_nv, disks |-> disks,
                      product_name |-> product_name, nvme_raw |-> nvme_raw]
           metrics == metrics_from_data(cpu, mem_info, total_mem_mb, gpu.gpus_pci,
                                        gpu.gpus_nv, disks)
           ratings == role_rating(metrics)
           storage_hint_text == storage_slot_hint(product_name, disks)
           tips == upgrade_suggestions(metrics, disks, nvme_raw, storage_hint_text)
       IN  IF IsBytes(nvme_raw)
           THEN /\ assess' = Assessment("hint", Some(inputs), Some(metrics), Some(ratings),
                                        Some(storage_hint_text), None, None)
                /\ job' = [job EXCEPT !.raised = "TypeError", !.result = Some(1)]
           ELSE /\ assess' = Assessment("report", Some(inputs), Some(metrics), Some(ratings),
                                        Some(storage_hint_text), Some(tips),
                                        Some(UpgradeSection(tips)))
                /\ job' = [job EXCEPT !.reported = TRUE, !.result = Some(0)]
    /\ lastCfg' = None
    /\ lastCall' = None
    /\ UNCHANGED <<euid0, priv, warned, log, calls, advisories, others>>

\* generate_report_data() hands the report data back to _run_local_assessment
LocalFinish ==
    /\ pc = "collect"
    /\ job.kind = "api"
    /\ job.step = Len(Collectors) + 1
    /\ pc' = "idle"
    /\ job' = [job EXCEPT !.result = Some(0)]
    /\ lastCfg' = None
    /\ lastCall' = None
    /\ UNCHANGED <<euid0, priv, warned, log, calls, advisories, assess, others>>

\* ----------------------------------------------------------- specifications
\* The negotiator and the guardrail under any sequence of direct calls.
Next ==
    \/ Configure
    \/ Reset
    \/ ClearLog
    \/ Run

Spec == Init /\ [][Next]_vars

\* One run of the command-line program: main() is entered once, in a fresh
\* process.
NextCli ==
    \/ MainStart
    \/ CollectStep
    \/ SkipStep
    \/ Finish

SpecCli == Init /\ [][NextCli]_vars

\* The API server: local assessments started one after another in one process.
NextApi ==
    \/ LocalStart
    \/ CollectStep
    \/ SkipStep
    \/ LocalFinish

SpecApi == Init /\ [][NextApi]_vars

\* The report pipeline of main() on any collected data.
NextAdvice ==
    \/ Derive
    \/ Rate
    \/ Hint
    \/ Suggest
    \/ Render

SpecAdvice == Init /\ [][NextAdvice]_vars

\* The API server's jobs: each job's background task runs in a worker thread
\* of its own, so the steps of different tasks interleave.
NextJobs ==
    \/ CreateJob
    \/ DropHost
    \/ RunAssessmentOpen
    \/ RunAssessmentEnter
    \/ RunAssessmentCollect
    \/ RunAssessmentStore

SpecJobs == Init /\ [][NextJobs]_vars

\* Host discovery on any entries of the two sources.
NextDiscovery == Discover

SpecDiscovery == Init /\ [][NextDiscovery]_vars

\* The SSH check on any outcome of its probe.
NextSsh == VerifySsh

SpecSsh == Init /\ [][NextSsh]_vars

\* parse_speed_mts on any speed text.
NextSpeed == ParseSpeed

SpecSpeed == Init /\ [][NextSpeed]_vars

\* ------------------------------------------------------------------ claims
HasPrefix(seq, pre) == Len(seq) >= Len(pre) /\ SubSeq(seq, 1, Len(pre)) = pre

EndsWith(seq, suf) ==
    Len(seq) >= Len(suf) /\ SubSeq(seq, Len(seq) - Len(suf) + 1, Len(seq)) = suf

\* the run() of the latest step asked for elevation in a process that is not root
Privileged(c) == c.needs_root /\ ~euid0

\* C1: after N calls of run() since the last clear_command_log(), whatever
\* their outcomes, the log holds exactly N entries, the latest call's result
\* last, and every entry has a duration that is present and not negative.
C1_LogComplete ==
    /\ Len(get_command_log(log)) = Len(calls)
    /\ lastCall # None => log # <<>> /\ log[Len(log)] = lastCall[1].result
    /\ \A i \in 1..Len(log) :
        /\ EndsWith(log[i].cmd, calls[i])
        /\ log[i].duration # None
        /\ log[i].duration[1] >= 0

\* two calls are logged, a failed one and then a wrapped one
C1_Witness ==
    /\ Len(log) = 2
    /\ ~success(log[1])
    /\ HasPrefix(log[2].cmd, <<"sudo">>)

\* C2: main() in mode "require", not root, the probe failing and the secret
\* rejected or empty, ends with a non-zero result before any collector runs:
\* no command is run, the log stays empty, no report is printed.
C2_RequireRejectionIsFatal ==
    (job.kind = "main" /\ job.mode = "require" /\ ~euid0 /\ ~job.probe_ok /\ ~job.accepted)
        => /\ pc = "done"
           /\ job.result # None
           /\ job.result[1] # 0
           /\ job.runs = 0
           /\ log = <<>>
           /\ ~job.reported

C2_Witness ==
    /\ job.kind = "main"
    /\ job.mode = "require"
    /\ ~euid0
    /\ ~job.probe_ok
    /\ ~job.accepted
    /\ pc = "done"

\* C3: main() ends without a report, with a non-zero result, only on a
\* require-mode rejection; in every other case it runs all the collectors,
\* prints the report and returns 0.
C3_OnlyRejectionIsFatal ==
    pc = "done" =>
        IF job.raised = "SystemExit" /\ job.mode = "require"
        THEN job.result # Some(0) /\ ~job.reported
        ELSE /\ job.result = Some(0)
             /\ job.reported
             /\ job.step = Len(Collectors) + 1

\* C4: configure_privileges never negotiates a PrivilegeState whose configured
\* flag is already true.
C4_NegotiatedOnce ==
    (lastCfg # None /\ lastCfg[1].raised # "ValueError") => ~lastCfg[1].was_configured

\* C5: a run() that needs root in a process that is not root executes
\* sudo -S + cmd with the secret and a newline on stdin when escalation is
\* available with a stored secret, sudo -n + cmd when it is available without
\* one, and cmd itself when it is unavailable; any other run() executes cmd.
C5_WrapsAsNegotiated ==
    lastCall # None =>
        LET c == lastCall[1]
            st == c.state
            inv == c.invocation
        IN  IF Privileged(c) /\ st.use_sudo /\ st.password # None
            THEN /\ inv.argv = <<"sudo", "-S">> \o c.cmd
                 /\ inv.input = Some(<<st.password[1], "\n">>)
            ELSE IF Privileged(c) /\ st.use_sudo
            THEN inv.argv = <<"sudo", "-n">> \o c.cmd
            ELSE inv.argv = c.cmd

\* a privileged call made with a stored secret
C5_Witness ==
    /\ lastCall # None
    /\ Privileged(lastCall[1])
    /\ lastCall[1].state.password # None
    /\ HasPrefix(lastCall[1].invocation.argv, <<"sudo", "-S">>)

\* C6: the advisory is printed at most once in the process: by the first
\* run() that needs elevation, is not optional and runs unprivileged, and by
\* no later one; an optional run() never prints it.
C6_AdvisoryOnce ==
    /\ advisories <= 1
    /\ lastCall # None =>
        LET c == lastCall[1]
            before == advisories - (IF c.advisory THEN 1 ELSE 0)
        IN  c.advisory <=>
                (Privileged(c) /\ ~c.state.use_sudo /\ ~c.optional /\ before = 0)

\* a later unprivileged fallback, not optional, whose advisory is suppressed
C6_Witness ==
    /\ lastCall # None
    /\ Privileged(lastCall[1])
    /\ ~lastCall[1].state.use_sudo
    /\ ~lastCall[1].optional
    /\ ~lastCall[1].advisory
    /\ advisories = 1

\* C7: run() gives the command input data exactly when it wrapped it with
\* sudo -S using a stored, non-empty secret; in every other case stdin is
\* DEVNULL.
C7_StdinClosedUnlessSecret ==
    lastCall # None =>
        LET c == lastCall[1]
            st == c.state
            inv == c.invocation
            piped == /\ HasPrefix(inv.argv, <<"sudo", "-S">>)
                     /\ st.password # None
                     /\ st.password[1] # ""
        IN  /\ inv.input # None <=> piped
            /\ inv.input # None => inv.input = Some(<<st.password[1], "\n">>)
            /\ inv.input = None => inv.stdin = "DEVNULL"
            /\ inv.stdin = "DEVNULL" => inv.input = None

\* a call wrapped with sudo -n, its stdin closed
C7_Witness ==
    /\ lastCall # None
    /\ HasPrefix(lastCall[1].invocation.argv, <<"sudo", "-n">>)
    /\ lastCall[1].invocation.stdin = "DEVNULL"

\* C8: in a root process, or in mode "skip", configure_privileges returns
\* with escalation unavailable and no secret, without running the probe and
\* without prompting; a later run() that needs root executes cmd unwrapped.
C8_NoEscalationWhenRootOrSkip ==
    /\ (lastCfg # None /\ lastCfg[1].raised # "ValueError"
            /\ (euid0 \/ lastCfg[1].mode = "skip"))
        => /\ lastCfg[1].raised = "none"
           /\ ~lastCfg[1].probed
           /\ lastCfg[1].prompted = None
           /\ priv.configured
           /\ ~priv.use_sudo
           /\ priv.password = None
    /\ (lastCall # None /\ lastCall[1].needs_root
            /\ (euid0 \/ (lastCall[1].state.configured /\ lastCall[1].state.mode = "skip")))
        => lastCall[1].invocation.argv = lastCall[1].cmd

\* a run() that needs root, after a negotiation in mode "skip"
C8_Witness ==
    /\ lastCall # None
    /\ Privileged(lastCall[1])
    /\ lastCall[1].state.configured
    /\ lastCall[1].state.mode = "skip"

\* C9: in mode "auto" or "require", not root, a successful probe leaves
\* escalation available, requires_password false and no secret, and nothing
\* is prompted, whatever prompt_password is.
C9_ProbeSuccessNeedsNoSecret ==
    (lastCfg # None /\ ~euid0 /\ lastCfg[1].mode \in {"auto", "require"}
            /\ lastCfg[1].probe_ok)
        => /\ lastCfg[1].raised = "none"
           /\ lastCfg[1].prompted = None
           /\ priv.configured
           /\ priv.use_sudo
           /\ ~priv.requires_password
           /\ priv.password = None

C9_Witness ==
    /\ lastCfg # None
    /\ ~euid0
    /\ lastCfg[1].mode = "require"
    /\ lastCfg[1].prompt_password
    /\ lastCfg[1].probe_ok

\* C10: a rejected or empty secret is fatal only in mode "require": in mode
\* "auto" with prompting allowed it leaves escalation unavailable and no secret
\* and configure_privileges returns; a later run() that needs root executes
\* cmd unwrapped, and the advisory has been printed once it is not optional.
C10_RejectionFatalOnlyInRequire ==
    /\ (lastCfg # None /\ lastCfg[1].raised = "SystemExit") => lastCfg[1].mode = "require"
    /\ (lastCfg # None /\ ~euid0 /\ lastCfg[1].mode = "auto"
            /\ lastCfg[1].prompted # None /\ ~lastCfg[1].accepted)
        => /\ lastCfg[1].raised = "none"
           /\ priv.configured
           /\ ~priv.use_sudo
           /\ priv.password = None
    /\ (lastCall # None /\ Privileged(lastCall[1])
            /\ lastCall[1].state.mode = "auto" /\ ~lastCall[1].state.use_sudo)
        => /\ lastCall[1].invocation.argv = lastCall[1].cmd
           /\ ~lastCall[1].optional => advisories = 1

\* the secret asked for in mode "auto" is rejected
C10_Witness ==
    /\ lastCfg # None
    /\ ~euid0
    /\ lastCfg[1].mode = "auto"
    /\ lastCfg[1].prompt_password
    /\ lastCfg[1].prompted # None
    /\ ~lastCfg[1].accepted

\* sub occurs in seq as a run of consecutive elements
Contains(seq, sub) ==
    \E i \in 0..(Len(seq) - Len(sub)) : SubSeq(seq, i + 1, i + Len(sub)) = sub

\* the run() of the latest step has returned its result and logged it
Returned(c) == log # <<>> /\ log[Len(log)] = c.result

\* C11: when the command exceeds its timeout, run() returns a result with
\* timed_out true, no exit code, the output captured before the timeout
\* (stripped), and an error that holds the timeout value and ends with the
\* executed command line.
C11_TimeoutIsRecoverable ==
    (lastCall # None /\ lastCall[1].out.kind = "timeout") =>
        LET c == lastCall[1]
            t == c.invocation.timeout
        IN  /\ Returned(c)
            /\ c.result.timed_out
            /\ c.result.returncode = None
            /\ c.result.stdout = "out"
            /\ c.result.stderr = "err"
            /\ c.result.error # None
            /\ Contains(c.result.error[1], <<ToString(t \div 10), ".", ToString(t % 10)>>)
            /\ EndsWith(c.result.error[1], c.invocation.argv)

\* a wrapped command times out
C11_Witness ==
    /\ lastCall # None
    /\ lastCall[1].out.kind = "timeout"
    /\ HasPrefix(lastCall[1].invocation.argv, <<"sudo">>)

ExitedNonZero(c) == c.out.kind = "exit" /\ c.out.returncode # 0

\* C13 as stated: on a non-zero exit run() returns a result that carries the
\* exit code and no error.
C13_NonZeroExitHasNoReason ==
    (lastCall # None /\ ExitedNonZero(lastCall[1])) =>
        /\ lastCall[1].result.returncode = Some(lastCall[1].out.returncode)
        /\ lastCall[1].result.error = None

\* C13, amended: on a non-zero exit run() returns a result that carries the
\* exit code, timed_out false, and an error: the stderr text if there is any,
\* else the stdout text, else "Exit code N"; its success is false.
C13_NonZeroExitCarriesReason ==
    (lastCall # None /\ ExitedNonZero(lastCall[1])) =>
        LET c == lastCall[1]
            r == c.result
        IN  /\ Returned(c)
            /\ r.returncode = Some(c.out.returncode)
            /\ ~r.timed_out
            /\ r.error = Some(IF r.stderr # "" THEN <<r.stderr>>
                               ELSE IF r.stdout # "" THEN <<r.stdout>>
                               ELSE <<"Exit code ", ToString(c.out.returncode)>>)
            /\ ~success(r)

\* a command exits non-zero without writing anything
C13_Witness ==
    /\ lastCall # None
    /\ ExitedNonZero(lastCall[1])
    /\ lastCall[1].result.stderr = ""
    /\ lastCall[1].result.stdout = ""

\* C14: every result run() produces has success true exactly when its error
\* is absent, it did not time out and its exit code is 0 or absent; a command
\* that timed out, was not found or exited non-zero has success false, and one
\* that exited 0 has success true.
C14_SuccessDerivation ==
    /\ \A i \in 1..Len(log) :
        success(log[i]) <=>
            /\ log[i].error = None
            /\ ~log[i].timed_out
            /\ log[i].returncode \in {None, Some(0)}
    /\ lastCall # None =>
        (success(lastCall[1].result) <=>
            (lastCall[1].out.kind = "exit" /\ lastCall[1].out.returncode = 0))

\* the log holds a success after a command that was not found
C14_Witness ==
    /\ Len(log) = 2
    /\ log[1].error # None
    /\ log[1].returncode = None
    /\ ~log[1].timed_out
    /\ success(log[2])

\* C15: a run() made when the PrivilegeState is configured, or that does not
\* need root, or in a root process, leaves every field of the PrivilegeState
\* as it was.
C15_RunLeavesPrivilegeState ==
    [][ (lastCall' # None /\ (priv.configured \/ ~lastCall'[1].needs_root \/ euid0))
            => priv' = priv ]_vars

\* a run() that needs root finds the state configured with a stored secret
C15_Witness ==
    /\ lastCall # None
    /\ lastCfg = None
    /\ Privileged(lastCall[1])
    /\ priv.configured
    /\ priv.requires_password
    /\ priv.password # None

\* C16: whenever the slot count is known (a declared slot count is present, or
\* some module reports a locator), the metrics satisfy
\* ram_populated + ram_empty = ram_slots.
C16_SlotAccounting ==
    assess.metrics # None =>
        LET m == assess.metrics[1]
            mem_info == assess.inputs[1].mem_info
            known == \/ mem_info.slot_count # None
                     \/ \E i \in 1..Len(mem_info.devices) :
                            mem_info.devices[i].Locator # None
        IN  known => m.ram_populated + m.ram_empty = m.ram_slots

Roles ==
    {"Developer workstation", "Developer server", "LLM / ML", "Media / streaming",
     "NAS / DB"}

Tiers == {"Not ideal", "Limited", "Fair", "Good", "Excellent"}

\* C17: role_rating returns a mapping whose keys are exactly the five roles,
\* each mapped to a rating whose tier is one of the five tiers.
C17_FiveRoles ==
    assess.ratings # None =>
        /\ DOMAIN assess.ratings[1] = Roles
        /\ \A role \in DOMAIN assess.ratings[1] : assess.ratings[1][role].rating \in Tiers

\* ratings of a machine without a dedicated GPU and of few threads
C17_Witness ==
    /\ assess.ratings # None
    /\ ~assess.metrics[1].has_dedicated_gpu
    /\ assess.metrics[1].threads < 8
    /\ assess.ratings[1]["Media / streaming"].rating = "Limited"
    /\ assess.ratings[1]["LLM / ML"].rating = "Not ideal"

GpuTip ==
    <<"No discrete GPU detected; add one if ML or media workloads are important and the chassis supports it.">>

\* C18: for metrics with threads >= 16, RAM total >= 32 GB and no dedicated
\* GPU, role_rating rates "Developer workstation" Excellent and "LLM / ML"
\* Not ideal, and upgrade_suggestions holds the tip recommending a discrete GPU.
C18_ScenarioA ==
    (assess.tips # None /\ assess.metrics[1].threads >= 16
            /\ assess.metrics[1].ram_total_gb >= 32 * 1024
            /\ ~assess.metrics[1].has_dedicated_gpu)
        => /\ assess.ratings[1]["Developer workstation"].rating = "Excellent"
           /\ assess.ratings[1]["LLM / ML"].rating = "Not ideal"
           /\ \E i \in 1..Len(assess.tips[1]) : assess.tips[1][i] = GpuTip

\* the scenario itself: 16 threads, 32 GB, two declared slots both populated,
\* no dedicated GPU
C18_Witness ==
    /\ assess.tips # None
    /\ assess.metrics[1].threads = 16
    /\ assess.metrics[1].ram_total_gb = 32 * 1024
    /\ assess.metrics[1].ram_slots = 2
    /\ assess.metrics[1].ram_populated = 2
    /\ ~assess.metrics[1].has_dedicated_gpu

\* the place of a tip in the priority order memory, storage, GPU,
\* slot-specific, tooling; 0 for a text that is none of the tips
TipRank(tip) ==
    CASE tip[1] \in {"Populate the ", "Replace existing SODIMMs to move toward the ",
                     "System is already at the reported maximum memory capacity."} -> 1
      [] tip[1] = "Only one storage device detected; add another NVMe/SATA drive for capacity or redundancy." -> 2
      [] tip = GpuTip -> 3
      [] tip[1] = "Use the free M.2 slot for a second NVMe SSD if additional fast storage is needed." -> 4
      [] tip[1] = "Install nvme-cli for deeper NVMe diagnostics (temperature, firmware, spare space)." -> 5
      [] OTHER -> 0

\* C19: the list upgrade_suggestions returns is a subsequence of the priority
\* order memory, storage, GPU, slot-specific, tooling: every tip is of one of
\* the five kinds and each tip's kind comes strictly after its predecessor's.
C19_TipsInPriorityOrder ==
    assess.tips # None =>
        LET tips == assess.tips[1]
        IN  /\ \A i \in 1..Len(tips) : TipRank(tips[i]) \in 1..5
            /\ \A i \in 1..(Len(tips) - 1) : TipRank(tips[i]) < TipRank(tips[i + 1])

\* all five kinds of tip at once
C19_Witness ==
    /\ assess.tips # None
    /\ Len(assess.tips[1]) = 5
    /\ assess.metrics[1].ram_empty > 0
    /\ assess.metrics[1].ram_total_gb # 0
    /\ assess.metrics[1].ram_max_capacity_gb # None

NoSuggestionsLine == <<"- No obvious upgrades suggested by current readings.">>

\* no condition of upgrade_suggestions is met
NothingToSuggest ==
    /\ assess.metrics[1].ram_empty = 0
    /\ assess.metrics[1].ram_total_gb = 0 \/ assess.metrics[1].ram_max_capacity_gb = None
    /\ assess.metrics[1].storage_total > 1
    /\ assess.metrics[1].has_dedicated_gpu
    /\ ~MentionsLikelyFree(assess.storage_hint_text[1])
    /\ assess.inputs[1].nvme_raw = "" \/ HasDeviceWord(assess.inputs[1].nvme_raw)

MemoryTimedOut ==
    /\ pc = "done"
    /\ job.kind = "main"
    /\ Len(job.collected) >= 5
    /\ job.collected[5][1].timed_out

\* C22: when "dmidecode -t memory" times out, main() still prints a complete
\* report and returns 0; the report's module list is empty, whatever partial
\* output the timeout carried, and the RAM total is the total of "free -m".
C22_MemoryTimeoutDegrades ==
    MemoryTimedOut =>
        /\ job.reported
        /\ job.result = Some(0)
        /\ assess.metrics[1].ram_modules = <<>>
        /\ Len(job.collected) >= 6
        /\ Some(assess.metrics[1].ram_total_gb) = TotalMemOf(job.collected[6][1])

\* the background tasks that are inside a local assessment
LocalInProgress ==
    {job_id \in DOMAIN tasks :
        tasks[job_id].at = "collecting" /\ is_local_host(tasks[job_id].host_snapshot[1])}

\* C23: at any time at most one local assessment is in progress in the
\* server's process.
C23_OneLocalAssessmentAtATime == Cardinality(LocalInProgress) <= 1

\* the values of the digit runs of the text of the latest parse_speed_mts call
SpeedRuns == IF speed[1].text = None THEN <<>> ELSE speed[1].text[1]

\* the values >= 1000 among them
SpeedHits == {SpeedRuns[i] : i \in {j \in DOMAIN SpeedRuns : SpeedRuns[j] >= 1000}}

\* C24 as stated: when some value of the text is >= 1000, parse_speed_mts
\* returns the largest value that is >= 1000.
C24_LargestQualifying ==
    (speed # None /\ SpeedHits # {}) =>
        /\ speed[1].result # None
        /\ speed[1].result[1] \in SpeedHits
        /\ \A v \in SpeedHits : v <= speed[1].result[1]

\* C24: when some value of the text is >= 1000, parse_speed_mts returns the
\* one written last among the values >= 1000; when none is, the maximum of
\* all values; for an absent text or a text without digits, None.
C24_LastQualifying ==
    speed # None =>
        LET result == speed[1].result
        IN  /\ SpeedHits # {} =>
                /\ result # None
                /\ \E i \in DOMAIN SpeedRuns :
                    /\ SpeedRuns[i] = result[1]
                    /\ result[1] >= 1000
                    /\ \A j \in DOMAIN SpeedRuns : j > i => SpeedRuns[j] < 1000
            /\ (SpeedHits = {} /\ SpeedRuns # <<>>) =>
                /\ result # None
                /\ \E i \in DOMAIN SpeedRuns : SpeedRuns[i] = result[1]
                /\ \A i \in DOMAIN SpeedRuns : SpeedRuns[i] <= result[1]
            /\ SpeedRuns = <<>> => result = None

\* a text whose last value >= 1000 is not its largest was parsed
C24_Witness ==
    /\ speed # None
    /\ SpeedRuns = <<5600, 4800, 8>>
    /\ speed[1].result = Some(4800)

\* the entries of the latest discover_hosts call, and those among them whose
\* normalized host key is key
FoundEntries ==
    {found[1].avahi[i] : i \in DOMAIN found[1].avahi}
        \cup {found[1].ssh[i] : i \in DOMAIN found[1].ssh}

EntriesOf(key) == {entry \in FoundEntries : normalize_hostname(Candidate(entry)) = key}

\* C25: discover_hosts returns one aggregate for each normalized host key of
\* its entries and none besides; the aggregate's addresses, sources, tags and
\* SSH aliases are the unions of those of the entries with that key.
C25_OneAggregatePerKey ==
    found # None =>
        LET keys == found[1].got.keys
            list == found[1].got.aggregated_list
        IN  /\ Len(list) = Len(keys)
            /\ \A i, j \in DOMAIN keys : keys[i] = keys[j] => i = j
            /\ {keys[i] : i \in DOMAIN keys}
                    = {normalize_hostname(Candidate(entry)) : entry \in FoundEntries}
            /\ \A i \in DOMAIN keys :
                /\ list[i].addresses = {entry.address[1] :
                        entry \in {e \in EntriesOf(keys[i]) : e.address # None}}
                /\ list[i].sources = {entry.source : entry \in EntriesOf(keys[i])}
                /\ list[i].tags = UNION {entry.tags : entry \in EntriesOf(keys[i])}
                /\ list[i].ssh_aliases = {entry.alias[1] :
                        entry \in {e \in EntriesOf(keys[i]) : e.alias # None}}

\* three entries of two sources and two spellings were merged into one aggregate
C25_Witness ==
    /\ found # None
    /\ Cardinality(EntriesOf("alpha")) = 3
    /\ Len(found[1].got.aggregated_list) = 1
    /\ Cardinality(found[1].got.aggregated_list[1].addresses) = 3

\* C26: an aggregate carries exactly the warning "No SSH configuration entry
\* found; verify SSH access." when none of its entries came from the SSH
\* config, and no warning when one did.
C26_WarningIffNoSshEntry ==
    found # None =>
        \A i \in DOMAIN found[1].got.keys :
            found[1].got.aggregated_list[i].warnings =
                IF \E entry \in EntriesOf(found[1].got.keys[i]) : entry.source = "ssh-config"
                THEN <<>>
                ELSE <<"No SSH configuration entry found; verify SSH access.">>

\* one call returned an aggregate with the warning and one without
C26_Witness ==
    /\ found # None
    /\ \E i, j \in DOMAIN found[1].got.aggregated_list :
        /\ found[1].got.aggregated_list[i].warnings = <<>>
        /\ found[1].got.aggregated_list[j].warnings # <<>>
        /\ "avahi" \in found[1].got.aggregated_list[i].sources

\* C27: verify_ssh reports authenticated exactly when ssh exited with 0 and
\* reachable exactly when it exited with 0 or its stderr holds "Permission
\* denied"; when the probe times out or there is no ssh executable it returns
\* normally, with reachable false, authenticated false and returncode -1.
C27_SshCheckResult ==
    sshCheck # None =>
        LET outcome == sshCheck[1].outcome
            got == sshCheck[1].got
        IN  /\ got.raised = None
            /\ outcome.kind = "exit" =>
                /\ got.value[1].authenticated <=> outcome.returncode = 0
                /\ got.value[1].reachable <=>
                    (outcome.returncode = 0
                        \/ outcome.stderr = Some("Permission denied (publickey).\n"))
            /\ outcome.kind # "exit" =>
                /\ ~got.value[1].reachable
                /\ ~got.value[1].authenticated
                /\ got.value[1].returncode = -1

\* the latest step was a negotiation that a rejected password ended
FatalRejection == lastCfg # None /\ lastCfg[1].raised = "SystemExit"

\* C28: in every state the calls of configure_privileges, of the test reset
\* and of run() lead to, a password is stored exactly when requires_password
\* is set, requires_password implies use_sudo, and use_sudo is not set in a
\* root process or in mode "skip"; a fatal rejection in mode "require" leaves
\* the state configured, without escalation and without a password.
C28_PrivilegeStateInvariant ==
    /\ priv.password # None <=> priv.requires_password
    /\ priv.requires_password => priv.use_sudo
    /\ priv.use_sudo => (~priv.is_root /\ ~euid0 /\ priv.mode # "skip")
    /\ FatalRejection =>
        (priv.configured /\ ~priv.use_sudo /\ ~priv.requires_password
            /\ priv.password = None)

\* a negotiation in mode "require" was rejected in a process that had
\* negotiated before
C28_Witness ==
    /\ FatalRejection
    /\ lastCfg[1].was_configured
    /\ priv.mode = "require"
    /\ Len(log) > 0

Terminal(status) == status \in {"completed", "error"}

\* the status changes a step may make to a job whose host row is there or not
Forward(before, after, host_missing) ==
    \/ after = before
    \/ before = "queued" /\ after = "running" /\ ~host_missing
    \/ before = "queued" /\ after = "error" /\ host_missing
    \/ before = "running" /\ after \in {"completed", "error"}

\* C29: a job's status only moves queued -> running -> completed or error, or
\* queued -> error when its host row is missing; a completed or error job
\* never changes again; finished_at is set exactly when the status is
\* completed or error; a Report exists only for a completed job, and at most
\* one for a job.
C29_JobStatusMovesForward ==
    [][ /\ \A job_id \in DOMAIN jobs :
            /\ Forward(jobs[job_id].status, jobs'[job_id].status,
                       jobs[job_id].host_id \notin hosts)
            /\ Terminal(jobs[job_id].status) => jobs'[job_id] = jobs[job_id]
        /\ \A job_id \in DOMAIN jobs' :
            jobs'[job_id].finished_at # None <=> Terminal(jobs'[job_id].status)
        /\ \A i \in DOMAIN reports' :
            /\ reports'[i].job_id \in DOMAIN jobs'
            /\ jobs'[reports'[i].job_id].status = "completed"
            /\ \A j \in DOMAIN reports' : reports'[j].job_id = reports'[i].job_id => j = i
      ]_vars

\* one job has completed with its Report, another ended in error because
\* its host row was gone
C29_Witness ==
    /\ \E i \in DOMAIN reports : jobs[reports[i].job_id].status = "completed"
    /\ \E job_id \in DOMAIN jobs :
        /\ jobs[job_id].status = "error"
        /\ jobs[job_id].error_message = Some("Host record missing")
        /\ jobs[job_id].started_at = None

\* the background tasks that have ended, by returning or by an exception
Ended == {job_id \in DOMAIN tasks : tasks[job_id].at \in {"returned", "died"}}

\* C30: when the background task of a job has ended, the job's status is
\* completed or error, whatever the collection did.
C30_EndedTaskLeavesTerminalJob ==
    \A job_id \in Ended : Terminal(jobs[job_id].status)
====
